------------------------- MODULE SyscallChannelProofs -------------------------
(***************************************************************************)
(* Proofs about the Syscall Channel for any set of callers and any bound   *)
(* on their calls: the type invariant, and, for a kernel handler that      *)
(* leaves the slot to the caller (HandlerClears = "none"), the mutual      *)
(* exclusion of the handshake slot and the idleness of the shared fields  *)
(* whenever no call holds it.                                              *)
(***************************************************************************)
EXTENDS SyscallChannel, SyscallWireProofs, TLAPS

USE CallersAssumption, NullAssumption, MaxCallsAssumption, HandlerAssumption,
    WireAssumption

Step(c) ==
  \/ Start(c) \/ Claim(c) \/ StoreInLen(c) \/ StoreOutPtr(c) \/ StoreOutLen(c)
  \/ Svc(c) \/ SwapOutLen(c) \/ ClearOutPtr(c) \/ ClearInLen(c) \/ ClearInPtr(c)

LEMMA NextIsStep == Next <=> \E c \in Callers : Step(c)
  BY DEF Next, Step

LEMMA TypeStep == TypeOK /\ [Next]_vars => TypeOK'
<1> SUFFICES ASSUME TypeOK, [Next]_vars PROVE TypeOK'
  OBVIOUS
<1>1. ASSUME NEW c \in Callers, Start(c) PROVE TypeOK'
  BY <1>1 DEF Start, TypeOK, Pcs, Results
<1>2. ASSUME NEW c \in Callers, Claim(c) PROVE TypeOK'
  BY <1>2 DEF Claim, TypeOK, Pcs, Results
<1>3. ASSUME NEW c \in Callers, StoreInLen(c) PROVE TypeOK'
  BY <1>3 DEF StoreInLen, Goto, TypeOK, Pcs
<1>4. ASSUME NEW c \in Callers, StoreOutPtr(c) PROVE TypeOK'
  BY <1>4 DEF StoreOutPtr, Goto, TypeOK, Pcs
<1>5. ASSUME NEW c \in Callers, StoreOutLen(c) PROVE TypeOK'
  BY <1>5 DEF StoreOutLen, Goto, TypeOK, Pcs, BufLen
<1>6. ASSUME NEW c \in Callers, Svc(c) PROVE TypeOK'
  BY <1>6, ResponsesFit DEF Svc, Goto, TypeOK, Pcs, Request, BufLen
<1>7. ASSUME NEW c \in Callers, SwapOutLen(c) PROVE TypeOK'
  BY <1>7 DEF SwapOutLen, Goto, TypeOK, Pcs, BufLen
<1>8. ASSUME NEW c \in Callers, ClearOutPtr(c) PROVE TypeOK'
  BY <1>8 DEF ClearOutPtr, Goto, TypeOK, Pcs, BufLen
<1>9. ASSUME NEW c \in Callers, ClearInLen(c) PROVE TypeOK'
  BY <1>9 DEF ClearInLen, Goto, TypeOK, Pcs, BufLen
<1>10. ASSUME NEW c \in Callers, ClearInPtr(c) PROVE TypeOK'
  BY <1>10 DEF ClearInPtr, Goto, TypeOK, Pcs, Results
<1>11. CASE UNCHANGED vars
  BY <1>11 DEF vars, TypeOK
<1>12. QED
  BY <1>1, <1>2, <1>3, <1>4, <1>5, <1>6, <1>7, <1>8, <1>9, <1>10, <1>11,
     NextIsStep DEF Step

(***************************************************************************)
(* Every variable keeps its type, whatever the callers and the handler do: *)
(* the handler writes a response only when both pointers name a caller,   *)
(* and the lengths raw_syscall reads stay within out_buf.                  *)
(***************************************************************************)
THEOREM TypeCorrect == Spec => []TypeOK
<1>1. Init => TypeOK
  BY DEF Init, TypeOK, Pcs, Results, BufLen
<1>2. QED
  BY <1>1, TypeStep, PTL DEF Spec

-----------------------------------------------------------------------------
(***************************************************************************)
(* The inductive invariant.  OwnsSlot: a caller is past its successful     *)
(* compare-exchange and before its last reset exactly when the input      *)
(* pointer names it.  Progress: the fields the owner has not yet published *)
(* or has already reset are idle, and the output pointer it published is   *)
(* still its own while the trap and the swap run.                          *)
(***************************************************************************)
OwnsSlot == \A c \in Callers : InSlot(c) <=> inPtr = c

FreeIdle == inPtr = Null => inLen = 0 /\ outPtr = Null /\ outLen = 0

Progress ==
  \A c \in Callers :
    /\ pc[c] = "inLen"    => inLen = 0 /\ outPtr = Null /\ outLen = 0
    /\ pc[c] = "outPtr"   => outPtr = Null /\ outLen = 0
    /\ pc[c] = "outLen"   => outPtr = c /\ outLen = 0
    /\ pc[c] \in {"svc", "swap"} => outPtr = c
    /\ pc[c] = "clrOutPtr" => outLen = 0
    /\ pc[c] = "clrInLen" => outPtr = Null /\ outLen = 0
    /\ pc[c] = "clrInPtr" => inLen = 0 /\ outPtr = Null /\ outLen = 0

IInv == TypeOK /\ OwnsSlot /\ FreeIdle /\ Progress

LEMMA InitIInv == Init => IInv
  BY DEF Init, IInv, TypeOK, Pcs, Results, OwnsSlot, InSlot, FreeIdle, Progress, BufLen

(***************************************************************************)
(* Every step of every caller preserves IInv when the handler leaves the   *)
(* slot to the caller.                                                     *)
(***************************************************************************)
LEMMA StepIInv ==
  ASSUME HandlerClears = "none", IInv, [Next]_vars
  PROVE  IInv'
<1> USE DEF IInv
<1>1. TypeOK'
  BY TypeStep
<1> DEFINE Keep == OwnsSlot' /\ FreeIdle' /\ Progress'
<1>2. ASSUME NEW c \in Callers, Start(c) PROVE Keep
  BY <1>2 DEF Start, TypeOK, OwnsSlot, InSlot, FreeIdle, Progress, Pcs
<1>3. ASSUME NEW c \in Callers, Claim(c) PROVE Keep
  BY <1>3 DEF Claim, TypeOK, OwnsSlot, InSlot, FreeIdle, Progress, Pcs
<1>4. ASSUME NEW c \in Callers, StoreInLen(c) PROVE Keep
  BY <1>4 DEF StoreInLen, Goto, TypeOK, OwnsSlot, InSlot, FreeIdle, Progress, Pcs
<1>5. ASSUME NEW c \in Callers, StoreOutPtr(c) PROVE Keep
  BY <1>5 DEF StoreOutPtr, Goto, TypeOK, OwnsSlot, InSlot, FreeIdle, Progress, Pcs
<1>6. ASSUME NEW c \in Callers, StoreOutLen(c) PROVE Keep
  BY <1>6 DEF StoreOutLen, Goto, TypeOK, OwnsSlot, InSlot, FreeIdle, Progress, Pcs
<1>7. ASSUME NEW c \in Callers, Svc(c) PROVE Keep
  BY <1>7 DEF Svc, Goto, TypeOK, OwnsSlot, InSlot, FreeIdle, Progress, Pcs
<1>8. ASSUME NEW c \in Callers, SwapOutLen(c) PROVE Keep
  BY <1>8 DEF SwapOutLen, Goto, TypeOK, OwnsSlot, InSlot, FreeIdle, Progress, Pcs
<1>9. ASSUME NEW c \in Callers, ClearOutPtr(c) PROVE Keep
  BY <1>9 DEF ClearOutPtr, Goto, TypeOK, OwnsSlot, InSlot, FreeIdle, Progress, Pcs
<1>10. ASSUME NEW c \in Callers, ClearInLen(c) PROVE Keep
  BY <1>10 DEF ClearInLen, Goto, TypeOK, OwnsSlot, InSlot, FreeIdle, Progress, Pcs
<1>11. ASSUME NEW c \in Callers, ClearInPtr(c) PROVE Keep
  BY <1>11 DEF ClearInPtr, Goto, TypeOK, OwnsSlot, InSlot, FreeIdle, Progress, Pcs
<1>12. ASSUME UNCHANGED vars PROVE Keep
  BY <1>12 DEF vars, IInv, OwnsSlot, InSlot, FreeIdle, Progress, Keep
<1>13. QED
  BY <1>1, <1>2, <1>3, <1>4, <1>5, <1>6, <1>7, <1>8, <1>9, <1>10, <1>11, <1>12,
     NextIsStep DEF Step

(***************************************************************************)
(* Mutual exclusion of the handshake slot, for any callers: with a handler *)
(* that leaves the fields to raw_syscall, at most one call is between its *)
(* successful compare-exchange on SYSCALL_IN_PTR and its final reset, and  *)
(* SYSCALL_IN_PTR names it.                                                *)
(***************************************************************************)
THEOREM Exclusion ==
  ASSUME HandlerClears = "none"
  PROVE  Spec => []SlotExclusive
<1>1. IInv => SlotExclusive
  BY DEF IInv, OwnsSlot, SlotExclusive
<1>2. IInv /\ [Next]_vars => IInv'
  BY StepIInv
<1>3. QED
  BY <1>1, <1>2, InitIInv, PTL DEF Spec

(***************************************************************************)
(* With the same handler, the four shared atomics are idle whenever no     *)
(* call holds the slot: raw_syscall's resets, input pointer last, leave   *)
(* nothing behind for the next compare-exchange to find.                   *)
(***************************************************************************)
THEOREM FreeSlotIdle ==
  ASSUME HandlerClears = "none"
  PROVE  Spec => []IdleWhenFree
<1>1. IInv => IdleWhenFree
  BY DEF IInv, TypeOK, OwnsSlot, FreeIdle, IdleWhenFree
<1>2. IInv /\ [Next]_vars => IInv'
  BY StepIInv
<1>3. QED
  BY <1>1, <1>2, InitIInv, PTL DEF Spec

-----------------------------------------------------------------------------
(***************************************************************************)
(* Refinement of the slot lock.  Under IInv every step of raw_syscall is a *)
(* step of SyscallSlot by the caller whose program counter moves: the      *)
(* successful claim is its Acquire, a store or reset of IN_LEN, OUT_PTR or *)
(* OUT_LEN (and the handler's write of OUT_LEN) is a Write by the caller   *)
(* IN_PTR names, the final store of null is its Release with the fields   *)
(* idle (Progress at "clrInPtr"), and the other steps are Local or leave   *)
(* the slot and every counter alone.                                       *)
(***************************************************************************)

\* A step that moves c's counter from one stage to another moves only c.
LEMMA MovesGoto ==
  ASSUME TypeOK, NEW c \in Callers, NEW from \in Pcs, NEW to \in Pcs, from # to,
         pc[c] = from, pc' = [pc EXCEPT ![c] = to]
  PROVE  Slot!Moves(c)
  BY DEF Slot!Moves, TypeOK

LEMMA StepRefines ==
  ASSUME HandlerClears = "none", IInv, [Next]_vars
  PROVE  [Slot!Next]_Slot!vars
<1> USE DEF IInv
<1> DEFINE Stutter == UNCHANGED Slot!vars
<1>1. ASSUME NEW c \in Callers, Start(c) PROVE Stutter \/ Slot!Local(c)
  <2>1. PICK req \in Requests :
          IF ReqLen(req) <= BufLen THEN pc' = [pc EXCEPT ![c] = "claim"]
          ELSE pc' = [pc EXCEPT ![c] = "idle"]
    BY <1>1 DEF Start
  <2>2. UNCHANGED <<inPtr, inLen, outPtr, outLen>> /\ pc[c] = "idle"
    BY <1>1 DEF Start
  <2>3. CASE ReqLen(req) <= BufLen
    <3>1. Slot!Moves(c)
      BY <2>1, <2>2, <2>3, MovesGoto DEF Pcs
    <3> QED
      BY <2>2, <3>1 DEF Slot!Local
  <2>4. CASE ~(ReqLen(req) <= BufLen)
    <3>1. pc' = pc
      BY <2>1, <2>2, <2>4 DEF TypeOK
    <3> QED
      BY <2>2, <3>1 DEF Slot!vars
  <2> QED
    BY <2>3, <2>4
<1>2. ASSUME NEW c \in Callers, Claim(c) PROVE Slot!Acquire(c) \/ Slot!Local(c)
  <2>1. CASE inPtr = Null
    <3>1. Slot!Moves(c)
      BY <1>2, <2>1, MovesGoto DEF Claim, Pcs
    <3> QED
      BY <1>2, <2>1, <3>1 DEF Claim, Slot!Acquire
  <2>2. CASE inPtr # Null
    <3>1. Slot!Moves(c)
      BY <1>2, <2>2, MovesGoto DEF Claim, Pcs
    <3> QED
      BY <1>2, <2>2, <3>1 DEF Claim, Slot!Local
  <2>3. QED
    BY <2>1, <2>2
<1> DEFINE Writes(c) == Slot!Write(c)
<1>3. ASSUME NEW c \in Callers,
             \/ StoreInLen(c) \/ StoreOutPtr(c) \/ StoreOutLen(c)
             \/ SwapOutLen(c) \/ ClearOutPtr(c) \/ ClearInLen(c)
      PROVE  Writes(c)
  <2>1. inPtr = c
    BY <1>3 DEF StoreInLen, StoreOutPtr, StoreOutLen, SwapOutLen,
                ClearOutPtr, ClearInLen, Goto, OwnsSlot, InSlot, Pcs
  <2>2. Slot!Moves(c)
    BY <1>3, MovesGoto DEF StoreInLen, StoreOutPtr, StoreOutLen, SwapOutLen,
                           ClearOutPtr, ClearInLen, Goto, Pcs
  <2>3. QED
    BY <1>3, <2>1, <2>2 DEF StoreInLen, StoreOutPtr, StoreOutLen, SwapOutLen,
                            ClearOutPtr, ClearInLen, Goto, TypeOK, BufLen,
                            Writes, Slot!Write
<1>4. ASSUME NEW c \in Callers, Svc(c) PROVE Writes(c)
  <2>1. inPtr = c
    BY <1>4 DEF Svc, Goto, OwnsSlot, InSlot, Pcs
  <2>2. PICK ok \in BOOLEAN, resp \in Responses :
          LET served == /\ ok /\ inPtr # Null /\ inLen > 0 /\ outPtr # Null
                        /\ RespLen(resp) <= outLen
          IN  outLen' = IF served THEN RespLen(resp) ELSE 0
    BY <1>4 DEF Svc
  <2>3. RespLen(resp) \in Nat
    BY ResponsesFit
  <2>4. outLen' \in Nat
    BY <2>2, <2>3
  <2>5. Slot!Moves(c)
    BY <1>4, MovesGoto DEF Svc, Goto, Pcs
  <2>6. QED
    BY <1>4, <2>1, <2>4, <2>5 DEF Svc, Goto, TypeOK, Writes, Slot!Write
<1>5. ASSUME NEW c \in Callers, ClearInPtr(c) PROVE Slot!Release(c)
  <2>1. inPtr = c /\ inLen = 0 /\ outPtr = Null /\ outLen = 0
    BY <1>5 DEF ClearInPtr, Goto, OwnsSlot, InSlot, Progress, Pcs
  <2>2. Slot!Moves(c)
    BY <1>5, MovesGoto DEF ClearInPtr, Goto, Pcs
  <2>3. QED
    BY <1>5, <2>1, <2>2 DEF ClearInPtr, Goto, Slot!Release
<1>6. CASE UNCHANGED vars
  BY <1>6 DEF vars, Slot!vars
<1>7. QED
  BY <1>1, <1>2, <1>3, <1>4, <1>5, <1>6, NextIsStep
  DEF Step, Stutter, Writes, Slot!Next

(***************************************************************************)
(* raw_syscall implements the slot lock, for any callers: with a handler   *)
(* that leaves the fields to the caller, every behaviour of the channel,   *)
(* seen through IN_PTR, the three guarded fields and the callers' program  *)
(* counters, is a behaviour of SyscallSlot.                                *)
(***************************************************************************)
THEOREM Refinement ==
  ASSUME HandlerClears = "none"
  PROVE  Spec => SlotRefinement
<1>1. Init => Slot!Init
  BY DEF Init, Slot!Init, Pcs
<1>2. IInv /\ [Next]_vars => IInv'
  BY StepIInv
<1>3. IInv /\ [Next]_vars => [Slot!Next]_Slot!vars
  BY StepRefines
<1>4. QED
  BY <1>1, <1>2, <1>3, InitIInv, PTL DEF Spec, SlotRefinement, Slot!Spec

-----------------------------------------------------------------------------
(***************************************************************************)
(* No call ever fails in try_syscall's serialisation, for any callers, any *)
(* handler and any u16 and u32 field values: the only step that reports   *)
(* the encoding error is Start, and it does so only for a request longer   *)
(* than inp_buf, which RequestsFit rules out.                              *)
(***************************************************************************)
LEMMA StepNoEncode ==
  ASSUME TypeOK, NoEncodeFailure, [Next]_vars
  PROVE  NoEncodeFailure'
<1>1. ASSUME NEW c \in Callers, Start(c) PROVE NoEncodeFailure'
  <2>1. PICK req \in Requests :
          IF ReqLen(req) <= BufLen
            THEN pc' = [pc EXCEPT ![c] = "claim"] /\ UNCHANGED result
            ELSE /\ pc' = [pc EXCEPT ![c] = "idle"]
                 /\ result' = [result EXCEPT ![c] = "encode"]
    BY <1>1 DEF Start
  <2>2. ReqLen(req) <= BufLen
    BY RequestsFit DEF BufLen
  <2>3. QED
    BY <2>1, <2>2 DEF NoEncodeFailure
<1>2. ASSUME NEW c \in Callers, Claim(c) PROVE NoEncodeFailure'
  BY <1>2 DEF Claim, TypeOK, NoEncodeFailure
<1>3. ASSUME NEW c \in Callers, ClearInPtr(c) PROVE NoEncodeFailure'
  BY <1>3 DEF ClearInPtr, Goto, TypeOK, NoEncodeFailure
<1>4. ASSUME NEW c \in Callers,
             \/ StoreInLen(c) \/ StoreOutPtr(c) \/ StoreOutLen(c) \/ Svc(c)
             \/ SwapOutLen(c) \/ ClearOutPtr(c) \/ ClearInLen(c)
      PROVE  NoEncodeFailure'
  BY <1>4 DEF StoreInLen, StoreOutPtr, StoreOutLen, Svc, SwapOutLen,
              ClearOutPtr, ClearInLen, NoEncodeFailure
<1>5. CASE UNCHANGED vars
  BY <1>5 DEF vars, NoEncodeFailure
<1>6. QED
  BY <1>1, <1>2, <1>3, <1>4, <1>5, NextIsStep DEF Step

THEOREM EncodeNeverFails == Spec => []NoEncodeFailure
<1>1. Init => TypeOK /\ NoEncodeFailure
  BY DEF Init, TypeOK, Pcs, Results, BufLen, NoEncodeFailure
<1>2. TypeOK /\ NoEncodeFailure /\ [Next]_vars => TypeOK' /\ NoEncodeFailure'
  BY TypeStep, StepNoEncode
<1>3. QED
  BY <1>1, <1>2, PTL DEF Spec

-----------------------------------------------------------------------------
(***************************************************************************)
(* Each caller gets its own response.  ResponseIntegrity alone is not      *)
(* inductive: it speaks only of idle callers, while what decides their     *)
(* result is set up earlier, by the handler and the swap.  RInv adds what  *)
(* holds of every caller at every point of its call:                       *)
(*  - OutOwn: c's out_buf holds nothing or the request of c's current      *)
(*    call (the handler writes through OUT_PTR, which is c's own while c   *)
(*    holds the slot, and a new call starts from an empty buffer);         *)
(*  - OkIffWritten: the handler reported success for c exactly when it     *)
(*    wrote c's out_buf;                                                   *)
(*  - Unserved: before the trap nothing has been served for this call;    *)
(*  - LenTracks: the length in SYSCALL_OUT_LEN at the swap, and the one    *)
(*    swapped out after it, is non-zero exactly when c was served (a       *)
(*    served response is at least two bytes long, by ResponsesFit).        *)
(***************************************************************************)
OutOwn == \A c \in Callers : outBuf[c] \in {Null, Request(c)}

OkIffWritten == \A c \in Callers : handlerOk[c] <=> outBuf[c] # Null

Unserved ==
  \A c \in Callers : pc[c] \in {"claim", "inLen", "outPtr", "outLen", "svc"} =>
                       ~handlerOk[c]

LenTracks ==
  \A c \in Callers :
    /\ pc[c] = "swap" => (outLen > 0 <=> handlerOk[c])
    /\ pc[c] \in {"clrOutPtr", "clrInLen", "clrInPtr"} =>
         (got[c] > 0 <=> handlerOk[c])

RInv == IInv /\ OutOwn /\ OkIffWritten /\ Unserved /\ LenTracks /\ ResponseIntegrity

LEMMA InitRInv == Init => RInv
  BY InitIInv DEF Init, RInv, OutOwn, OkIffWritten, Unserved, LenTracks,
                  ResponseIntegrity

(***************************************************************************)
(* Every step preserves RInv when the handler leaves the slot to the       *)
(* caller.  The cases that matter are the handler, which writes c's        *)
(* buffer and length together, the swap, which carries the length into    *)
(* got[c], and the final reset, which turns got[c] and out_buf into c's    *)
(* result; every other caller's state is left alone.                       *)
(***************************************************************************)
LEMMA StepRInv ==
  ASSUME HandlerClears = "none", RInv, [Next]_vars
  PROVE  RInv'
<1> USE DEF RInv
<1>1. IInv'
  BY StepIInv
<1> DEFINE Extra == /\ OutOwn' /\ OkIffWritten' /\ Unserved' /\ LenTracks'
                    /\ ResponseIntegrity'
<1>2. ASSUME NEW c \in Callers, Start(c) PROVE Extra
  BY <1>2 DEF Start, IInv, TypeOK, Request, OutOwn, OkIffWritten, Unserved,
              LenTracks, ResponseIntegrity
<1>3. ASSUME NEW c \in Callers, Claim(c) PROVE Extra
  BY <1>3 DEF Claim, IInv, TypeOK, Request, OutOwn, OkIffWritten, Unserved,
              LenTracks, ResponseIntegrity
<1>4. ASSUME NEW c \in Callers,
             StoreInLen(c) \/ StoreOutPtr(c) \/ StoreOutLen(c)
      PROVE  Extra
  <2>1. CASE StoreInLen(c)
    <3>1. OutOwn'
      BY <2>1 DEF StoreInLen, Goto, IInv, TypeOK, Request, OutOwn
    <3>2. OkIffWritten'
      BY <2>1 DEF StoreInLen, Goto, IInv, TypeOK, Request, OkIffWritten
    <3>3. Unserved'
      BY <2>1 DEF StoreInLen, Goto, IInv, TypeOK, Request, Unserved
    <3>4. LenTracks'
      BY <2>1 DEF StoreInLen, Goto, IInv, TypeOK, Request, LenTracks
    <3>5. ResponseIntegrity'
      BY <2>1 DEF StoreInLen, Goto, IInv, TypeOK, Request, ResponseIntegrity
    <3>6. QED
      BY <3>1, <3>2, <3>3, <3>4, <3>5
  <2>2. CASE StoreOutPtr(c)
    <3>1. OutOwn'
      BY <2>2 DEF StoreOutPtr, Goto, IInv, TypeOK, Request, OutOwn
    <3>2. OkIffWritten'
      BY <2>2 DEF StoreOutPtr, Goto, IInv, TypeOK, Request, OkIffWritten
    <3>3. Unserved'
      BY <2>2 DEF StoreOutPtr, Goto, IInv, TypeOK, Request, Unserved
    <3>4. LenTracks'
      BY <2>2 DEF StoreOutPtr, Goto, IInv, TypeOK, Request, LenTracks
    <3>5. ResponseIntegrity'
      BY <2>2 DEF StoreOutPtr, Goto, IInv, TypeOK, Request, ResponseIntegrity
    <3>6. QED
      BY <3>1, <3>2, <3>3, <3>4, <3>5
  <2>3. CASE StoreOutLen(c)
    <3>1. OutOwn'
      BY <2>3 DEF StoreOutLen, Goto, IInv, TypeOK, Request, OutOwn
    <3>2. OkIffWritten'
      BY <2>3 DEF StoreOutLen, Goto, IInv, TypeOK, Request, OkIffWritten
    <3>3. Unserved'
      BY <2>3 DEF StoreOutLen, Goto, IInv, TypeOK, Request, Unserved
    <3>4. LenTracks'
      BY <2>3 DEF StoreOutLen, Goto, IInv, TypeOK, Request, LenTracks, OwnsSlot, InSlot, Pcs
    <3>5. ResponseIntegrity'
      BY <2>3 DEF StoreOutLen, Goto, IInv, TypeOK, Request, ResponseIntegrity
    <3>6. QED
      BY <3>1, <3>2, <3>3, <3>4, <3>5
  <2>4. QED
    BY <1>4, <2>1, <2>2, <2>3
<1>5. ASSUME NEW c \in Callers, Svc(c) PROVE Extra
  <2>1. inPtr = c /\ outPtr = c
    BY <1>5 DEF Svc, Goto, IInv, OwnsSlot, InSlot, Progress, Pcs
  <2>2. PICK ok \in BOOLEAN, resp \in Responses :
          LET served == /\ ok /\ inPtr # Null /\ inLen > 0 /\ outPtr # Null
                        /\ RespLen(resp) <= outLen
              len == IF served THEN RespLen(resp) ELSE 0
          IN  /\ outBuf' = IF served THEN [outBuf EXCEPT ![outPtr] = Request(inPtr)]
                           ELSE outBuf
              /\ handlerOk' = IF served THEN [handlerOk EXCEPT ![inPtr] = TRUE]
                              ELSE handlerOk
              /\ outLen' = len
              /\ UNCHANGED <<inPtr, inLen, outPtr>>
    BY <1>5 DEF Svc
  <2>3. RespLen(resp) > 0
    BY ResponsesFit
  <2> DEFINE served == /\ ok /\ inPtr # Null /\ inLen > 0 /\ outPtr # Null
                       /\ RespLen(resp) <= outLen
  <2>4. ~handlerOk[c]
    BY <1>5 DEF Svc, Goto, Unserved
  <2>5. CASE served
    <3>0. Request(c) # Null
      <4>1. Request(c) \in Callers \X Nat
        BY DEF Request, IInv, TypeOK
      <4>2. QED
        BY <4>1
    <3>1. outBuf' = [outBuf EXCEPT ![c] = Request(c)]
          /\ handlerOk' = [handlerOk EXCEPT ![c] = TRUE]
          /\ outLen' = RespLen(resp)
      BY <2>1, <2>2, <2>5
    <3>2. OutOwn'
      BY <1>5, <2>1, <2>3, <3>1 DEF Svc, Goto, IInv, TypeOK, Request, OutOwn
    <3>3. OkIffWritten'
      BY <1>5, <2>1, <2>3, <3>0, <3>1 DEF Svc, Goto, IInv, TypeOK, OkIffWritten
    <3>4. Unserved'
      BY <1>5, <2>1, <2>3, <3>1 DEF Svc, Goto, IInv, TypeOK, Request, Unserved
    <3>5. LenTracks'
      BY <1>5, <2>1, <2>3, <3>1 DEF Svc, Goto, IInv, TypeOK, Request, LenTracks
    <3>6. ResponseIntegrity'
      BY <1>5, <2>1, <2>3, <3>1 DEF Svc, Goto, IInv, TypeOK, Request, ResponseIntegrity
    <3>7. QED
      BY <3>2, <3>3, <3>4, <3>5, <3>6
  <2>6. CASE ~served
    <3>1. outBuf' = outBuf /\ handlerOk' = handlerOk /\ outLen' = 0
      BY <2>2, <2>6
    <3>2. OutOwn'
      BY <1>5, <2>1, <2>4, <3>1 DEF Svc, Goto, IInv, TypeOK, Request, OutOwn
    <3>3. OkIffWritten'
      BY <1>5, <2>1, <2>4, <3>1 DEF Svc, Goto, IInv, TypeOK, Request, OkIffWritten
    <3>4. Unserved'
      BY <1>5, <2>1, <2>4, <3>1 DEF Svc, Goto, IInv, TypeOK, Request, Unserved
    <3>5. LenTracks'
      BY <1>5, <2>1, <2>4, <3>1 DEF Svc, Goto, IInv, TypeOK, Request, LenTracks,
                                    OwnsSlot, InSlot, Pcs
    <3>6. ResponseIntegrity'
      BY <1>5, <2>1, <2>4, <3>1 DEF Svc, Goto, IInv, TypeOK, Request, ResponseIntegrity
    <3>7. QED
      BY <3>2, <3>3, <3>4, <3>5, <3>6
  <2>7. QED
    BY <2>5, <2>6
<1>6. ASSUME NEW c \in Callers, SwapOutLen(c) PROVE Extra
  <2>1. OutOwn'
    BY <1>6 DEF SwapOutLen, Goto, IInv, TypeOK, Request, OutOwn
  <2>2. OkIffWritten'
    BY <1>6 DEF SwapOutLen, Goto, IInv, TypeOK, Request, OkIffWritten
  <2>3. Unserved'
    BY <1>6 DEF SwapOutLen, Goto, IInv, TypeOK, Request, Unserved
  <2>4. LenTracks'
    BY <1>6 DEF SwapOutLen, Goto, IInv, TypeOK, Request, LenTracks, OwnsSlot,
                InSlot, Pcs
  <2>5. ResponseIntegrity'
    BY <1>6 DEF SwapOutLen, Goto, IInv, TypeOK, Request, ResponseIntegrity
  <2>6. QED
    BY <2>1, <2>2, <2>3, <2>4, <2>5
<1>7. ASSUME NEW c \in Callers, ClearOutPtr(c) \/ ClearInLen(c) PROVE Extra
  BY <1>7 DEF ClearOutPtr, ClearInLen, Goto, IInv, TypeOK, Request, OutOwn,
              OkIffWritten, Unserved, LenTracks, ResponseIntegrity
<1>8. ASSUME NEW c \in Callers, ClearInPtr(c) PROVE Extra
  BY <1>8 DEF ClearInPtr, Goto, IInv, TypeOK, Request, OutOwn, OkIffWritten,
              Unserved, LenTracks, ResponseIntegrity
<1>9. CASE UNCHANGED vars
  <2>1. OutOwn'
    BY <1>9 DEF vars, Request, OutOwn
  <2>2. OkIffWritten'
    BY <1>9 DEF vars, Request, OkIffWritten
  <2>3. Unserved'
    BY <1>9 DEF vars, Request, Unserved
  <2>4. LenTracks'
    BY <1>9 DEF vars, Request, LenTracks
  <2>5. ResponseIntegrity'
    BY <1>9 DEF vars, Request, ResponseIntegrity
  <2>6. QED
    BY <1>1, <2>1, <2>2, <2>3, <2>4, <2>5
<1>10. QED
  BY <1>1, <1>2, <1>3, <1>4, <1>5, <1>6, <1>7, <1>8, <1>9, NextIsStep
  DEF Step

(***************************************************************************)
(* With a handler that leaves the fields to raw_syscall, for any callers:  *)
(* a call that returns Ok returns the response to its own request, and a   *)
(* call the handler served returns Ok; no caller preempting another in     *)
(* raw_syscall can make it read a foreign response or lose its own.        *)
(***************************************************************************)
THEOREM OwnResponse ==
  ASSUME HandlerClears = "none"
  PROVE  Spec => []ResponseIntegrity
<1>1. RInv => ResponseIntegrity
  BY DEF RInv
<1>2. RInv /\ [Next]_vars => RInv'
  BY StepRInv
<1>3. QED
  BY <1>1, <1>2, InitRInv, PTL DEF Spec

=============================================================================
