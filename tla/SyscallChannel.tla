---------------------------- MODULE SyscallChannel ----------------------------
(***************************************************************************)
(* The Syscall Channel (src/firmware/common/src/syscall/mod.rs,            *)
(* try_syscall and raw_syscall): four process-wide atomics SYSCALL_IN_PTR, *)
(* SYSCALL_IN_LEN, SYSCALL_OUT_PTR, SYSCALL_OUT_LEN, claimed with a        *)
(* compare-exchange on the input pointer, followed by an svc trap into the *)
(* kernel's handler.                                                       *)
(*                                                                         *)
(* Every atomic operation of raw_syscall is one step of its caller, so     *)
(* callers preempting each other interleave at every point.  The trap runs *)
(* the kernel handler to completion (SVCall) in the same step.  The        *)
(* handler is kernel code outside src/ and is modelled from spec 4.4 step  *)
(* 4; which shared fields it resets before returning is the constant       *)
(* HandlerClears.  Pointers are abstracted to the caller that owns the     *)
(* buffer; the request a caller serialises is <<caller, call number>>.     *)
(***************************************************************************)
EXTENDS Naturals, SyscallWire

CONSTANTS
  Callers,       \* the unprivileged contexts that call try_syscall
  Null,          \* the null pointer
  MaxCalls,      \* bound on the calls each caller makes
  HandlerClears  \* fields the handler resets: "none", "input" or "all"

ASSUME CallersAssumption == Null \notin Callers
\* An empty out_buf (Null) is never the response to a request.
ASSUME NullAssumption == Null \notin Callers \X Nat
ASSUME MaxCallsAssumption == MaxCalls \in Nat
ASSUME HandlerAssumption == HandlerClears \in {"none", "input", "all"}

\* Mutant: buffers sized for a short request only.
BufLenSmall == 16

\* Capacity of the input and output buffers (inp_buf, out_buf: [u8; 128]).
BufLen == 128

VARIABLES
  inPtr, inLen, outPtr, outLen, \* the four shared atomics
  pc,        \* pc[c]: the next step of caller c
  calls,     \* calls[c]: calls caller c has started
  outBuf,    \* outBuf[c]: the response written into c's out_buf, or Null
  got,       \* got[c]: the length swapped out of SYSCALL_OUT_LEN
  handlerOk, \* handlerOk[c]: the handler served c's request successfully
  result     \* result[c]: outcome of c's last call

vars == <<inPtr, inLen, outPtr, outLen, pc, calls, outBuf, got, handlerOk, result>>

Request(c) == <<c, calls[c]>>

Results == {"none", "ok", "busy", "failed", "malformed", "encode"}

Init ==
  /\ inPtr = Null /\ inLen = 0 /\ outPtr = Null /\ outLen = 0
  /\ pc = [c \in Callers |-> "idle"]
  /\ calls = [c \in Callers |-> 0]
  /\ outBuf = [c \in Callers |-> Null]
  /\ got = [c \in Callers |-> 0]
  /\ handlerOk = [c \in Callers |-> FALSE]
  /\ result = [c \in Callers |-> "none"]

Shared == <<inPtr, inLen, outPtr, outLen>>

Goto(c, from, to) == pc[c] = from /\ pc' = [pc EXCEPT ![c] = to]

(***************************************************************************)
(* try_syscall: postcard::to_slice of the request into the 128-byte        *)
(* inp_buf; a request that does not fit fails here, before any shared      *)
(* field is touched.                                                       *)
(***************************************************************************)
Start(c) ==
  /\ pc[c] = "idle"
  /\ calls[c] < MaxCalls
  /\ calls' = [calls EXCEPT ![c] = @ + 1]
  /\ outBuf' = [outBuf EXCEPT ![c] = Null]
  /\ handlerOk' = [handlerOk EXCEPT ![c] = FALSE]
  /\ \E req \in Requests :
       IF ReqLen(req) <= BufLen THEN pc' = [pc EXCEPT ![c] = "claim"] /\ UNCHANGED result
       ELSE pc' = [pc EXCEPT ![c] = "idle"] /\ result' = [result EXCEPT ![c] = "encode"]
  /\ UNCHANGED <<inPtr, inLen, outPtr, outLen, got>>

\* Mutant: a plain load-then-store instead of the compare-exchange.
ClaimNoCas(c) ==
  /\ pc[c] = "claim"
  /\ inPtr' = c /\ pc' = [pc EXCEPT ![c] = "inLen"]
  /\ UNCHANGED <<inLen, outPtr, outLen, calls, outBuf, got, handlerOk, result>>

\* Mutant: the error path of a lost compare-exchange resets SYSCALL_IN_LEN,
\* as the cleanup after a call does.
ClaimErrClears(c) ==
  /\ pc[c] = "claim"
  /\ IF inPtr = Null
       THEN inPtr' = c /\ pc' = [pc EXCEPT ![c] = "inLen"] /\ UNCHANGED <<inLen, result>>
       ELSE /\ pc' = [pc EXCEPT ![c] = "idle"] /\ UNCHANGED inPtr /\ inLen' = 0
            /\ result' = [result EXCEPT ![c] = "busy"]
  /\ UNCHANGED <<outPtr, outLen, calls, outBuf, got, handlerOk>>

\* SYSCALL_IN_PTR.compare_exchange(null, in_ptr): on failure, Err(()) at once.
Claim(c) ==
  /\ pc[c] = "claim"
  /\ IF inPtr = Null
       THEN inPtr' = c /\ pc' = [pc EXCEPT ![c] = "inLen"] /\ UNCHANGED result
       ELSE /\ pc' = [pc EXCEPT ![c] = "idle"] /\ UNCHANGED inPtr
            /\ result' = [result EXCEPT ![c] = "busy"]
  /\ UNCHANGED <<inLen, outPtr, outLen, calls, outBuf, got, handlerOk>>

\* The three stores that publish the call.
StoreInLen(c) ==
  /\ Goto(c, "inLen", "outPtr") /\ inLen' = 1
  /\ UNCHANGED <<inPtr, outPtr, outLen, calls, outBuf, got, handlerOk, result>>

StoreOutPtr(c) ==
  /\ Goto(c, "outPtr", "outLen") /\ outPtr' = c
  /\ UNCHANGED <<inPtr, inLen, outLen, calls, outBuf, got, handlerOk, result>>

\* Mutant: an off-by-one in the published output length.
StoreOutLenOver(c) ==
  /\ Goto(c, "outLen", "svc") /\ outLen' = BufLen + 1
  /\ UNCHANGED <<inPtr, inLen, outPtr, calls, outBuf, got, handlerOk, result>>

StoreOutLen(c) ==
  /\ Goto(c, "outLen", "svc") /\ outLen' = BufLen
  /\ UNCHANGED <<inPtr, inLen, outPtr, calls, outBuf, got, handlerOk, result>>

(***************************************************************************)
(* svc 0 and the kernel handler (spec 4.4 step 4), run to completion: it   *)
(* reads the request through the input pointer, serves it or fails, writes *)
(* a response into the output buffer, which it can only when the encoded   *)
(* response fits the published capacity, and its length (0 for a failure) *)
(* into SYSCALL_OUT_LEN, then resets the fields HandlerClears names.       *)
(***************************************************************************)
Svc(c) ==
  /\ Goto(c, "svc", "swap")
  /\ \E ok \in BOOLEAN, resp \in Responses :
       LET served == /\ ok /\ inPtr # Null /\ inLen > 0 /\ outPtr # Null
                     /\ RespLen(resp) <= outLen
           len == IF served THEN RespLen(resp) ELSE 0
       IN  /\ outBuf' = IF served THEN [outBuf EXCEPT ![outPtr] = Request(inPtr)]
                        ELSE outBuf
           /\ handlerOk' = IF served THEN [handlerOk EXCEPT ![inPtr] = TRUE]
                           ELSE handlerOk
           /\ outLen' = IF HandlerClears = "all" THEN 0 ELSE len
           /\ IF HandlerClears = "none" THEN UNCHANGED <<inPtr, inLen, outPtr>>
              ELSE inPtr' = Null /\ inLen' = 0 /\ outPtr' = Null
  /\ UNCHANGED <<calls, got, result>>

\* SYSCALL_OUT_LEN.swap(0), then the three resets, input pointer last.
SwapOutLen(c) ==
  /\ Goto(c, "swap", "clrOutPtr")
  /\ got' = [got EXCEPT ![c] = outLen] /\ outLen' = 0
  /\ UNCHANGED <<inPtr, inLen, outPtr, calls, outBuf, handlerOk, result>>

\* Mutant: the input pointer released first, before the other resets.
ClearOutPtrEarly(c) ==
  /\ Goto(c, "clrOutPtr", "clrInLen") /\ outPtr' = Null /\ inPtr' = Null
  /\ UNCHANGED <<inLen, outLen, calls, outBuf, got, handlerOk, result>>

ClearOutPtr(c) ==
  /\ Goto(c, "clrOutPtr", "clrInLen") /\ outPtr' = Null
  /\ UNCHANGED <<inPtr, inLen, outLen, calls, outBuf, got, handlerOk, result>>

\* Mutant: the reset of SYSCALL_IN_LEN forgotten.
ClearInLenSkip(c) ==
  /\ Goto(c, "clrInLen", "clrInPtr")
  /\ UNCHANGED <<inPtr, inLen, outPtr, outLen, calls, outBuf, got, handlerOk, result>>

ClearInLen(c) ==
  /\ Goto(c, "clrInLen", "clrInPtr") /\ inLen' = 0
  /\ UNCHANGED <<inPtr, outPtr, outLen, calls, outBuf, got, handlerOk, result>>

(***************************************************************************)
(* SYSCALL_IN_PTR.store(null), and the result: a zero length is Err(()),   *)
(* otherwise postcard::from_bytes of out_buf[..len], which fails on a      *)
(* buffer the handler has not written.                                     *)
(***************************************************************************)
ClearInPtr(c) ==
  /\ Goto(c, "clrInPtr", "idle") /\ inPtr' = Null
  /\ result' = [result EXCEPT ![c] =
                  IF got[c] = 0 THEN "failed"
                  ELSE IF outBuf[c] = Null THEN "malformed" ELSE "ok"]
  /\ UNCHANGED <<inLen, outPtr, outLen, calls, outBuf, got, handlerOk>>

Next ==
  \E c \in Callers :
    \/ Start(c) \/ Claim(c) \/ StoreInLen(c) \/ StoreOutPtr(c) \/ StoreOutLen(c)
    \/ Svc(c) \/ SwapOutLen(c) \/ ClearOutPtr(c) \/ ClearInLen(c) \/ ClearInPtr(c)

Spec == Init /\ [][Next]_vars

-----------------------------------------------------------------------------
Pcs == {"idle", "claim", "inLen", "outPtr", "outLen", "svc", "swap",
        "clrOutPtr", "clrInLen", "clrInPtr"}

TypeOK ==
  /\ inPtr \in Callers \cup {Null} /\ outPtr \in Callers \cup {Null}
  /\ inLen \in Nat /\ outLen \in 0..BufLen
  /\ pc \in [Callers -> Pcs]
  /\ calls \in [Callers -> 0..MaxCalls]
  /\ outBuf \in [Callers -> (Callers \X Nat) \cup {Null}]
  /\ got \in [Callers -> 0..BufLen]
  /\ handlerOk \in [Callers -> BOOLEAN]
  /\ result \in [Callers -> Results]

\* Caller c has won the claim and not yet released the input pointer.
InSlot(c) == pc[c] \in Pcs \ {"idle", "claim"}

(***************************************************************************)
(* Mutual exclusion of the handshake slot (spec 4.4 and 8): at most one    *)
(* call is between a successful compare-exchange and its final reset, and  *)
(* the input pointer names that call.  Violating it takes two callers      *)
(* interleaving inside raw_syscall.                                        *)
(***************************************************************************)
SlotExclusive ==
  \A c \in Callers : InSlot(c) =>
     /\ inPtr = c
     /\ \A d \in Callers \ {c} : ~InSlot(d)

(***************************************************************************)
(* The shared fields are idle whenever no call holds the slot (spec 4.4    *)
(* invariant), so the next compare-exchange finds a clean slot.            *)
(***************************************************************************)
IdleWhenFree ==
  (\A c \in Callers : ~InSlot(c)) =>
     inPtr = Null /\ inLen = 0 /\ outPtr = Null /\ outLen = 0

(***************************************************************************)
(* raw_syscall implements the slot lock of SyscallSlot: SYSCALL_IN_PTR is  *)
(* the holder, IN_LEN, OUT_PTR and OUT_LEN are the fields it guards, and a *)
(* caller's program counter is its stage, so the caller whose counter      *)
(* moves is the one acting.  A successful claim takes the lock for the     *)
(* claiming call, every store to or reset of the fields (the handler       *)
(* acting for the trapping call) is a step of the call IN_PTR names, a     *)
(* call that does not hold the slot never touches them, and the final      *)
(* store of null into IN_PTR happens only after the other three fields are *)
(* back to idle.                                                           *)
(***************************************************************************)
Slot == INSTANCE SyscallSlot
          WITH holder <- inPtr,
               fields <- <<inLen, outPtr, outLen>>,
               stage <- pc,
               Idle <- <<0, Null, 0>>,
               Fields <- Nat \X (Callers \cup {Null}) \X Nat,
               Stages <- Pcs

SlotRefinement == Slot!Spec

(***************************************************************************)
(* Every request try_syscall serialises fits its 128-byte inp_buf, the     *)
(* bound spec 2 makes an invariant of the wire codec: whatever variant and *)
(* field values a caller passes, postcard::to_slice never fails and no     *)
(* call ends in the encoding error.                                        *)
(***************************************************************************)
NoEncodeFailure == \A c \in Callers : result[c] # "encode"

(***************************************************************************)
(* A call that returns Ok returns the response to its own request, and a  *)
(* call the handler served returns Ok: no caller reads another's response  *)
(* or length, and no reset loses a served response.                        *)
(***************************************************************************)
ResponseIntegrity ==
  \A c \in Callers : pc[c] = "idle" =>
     /\ result[c] = "ok" => outBuf[c] = Request(c)
     /\ result[c] \notin {"busy", "encode", "none"} =>
          (handlerOk[c] <=> result[c] = "ok")

=============================================================================
