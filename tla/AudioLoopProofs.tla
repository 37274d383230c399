--------------------------- MODULE AudioLoopProofs ---------------------------
(***************************************************************************)
(* The audio loop keeps the stream continuous for every idata length,      *)
(* buffer size and pass count.  StreamContinuous alone is not inductive:   *)
(* it says nothing of the buffer held in already_calcd nor of where the    *)
(* cycled iterator stands, which the next accepted buffer depends on.      *)
(* IInv ties both to the number of buffers accepted so far.                *)
(***************************************************************************)
EXTENDS AudioLoop, TLAPS

USE AudioAssumption

\* Where the cycle stands after k buffers have been filled.
Offset(k) == (k * BufSamples) % IdataLen

Held == IF pending # NoBuf THEN 1 ELSE 0

IInv ==
  /\ TypeOK
  /\ cursor = Offset(Len(played) + Held)
  /\ pending # NoBuf => pending = Offset(Len(played))
  /\ StreamContinuous

\* The remainder is the one r in 0..n-1 with x = n * q + r.
LEMMA ModUnique ==
  ASSUME NEW n \in Nat \ {0}, NEW q \in Nat, NEW r \in 0..(n - 1),
         NEW x \in Nat, x = n * q + r
  PROVE  x % n = r
  OBVIOUS

\* Adding to a remainder and reducing again is reducing the sum.
LEMMA ModAdd ==
  ASSUME NEW a \in Nat, NEW b \in Nat, NEW n \in Nat \ {0}
  PROVE  ((a % n) + b) % n = (a + b) % n
<1> DEFINE q1 == a \div n  r1 == a % n  s == r1 + b  q2 == s \div n  r2 == s % n
<1>1. a = n * q1 + r1 /\ s = n * q2 + r2
  OBVIOUS
<1>2. r2 \in 0..(n - 1) /\ q1 \in Nat /\ q2 \in Nat
  OBVIOUS
<1>3. a + b = n * (q1 + q2) + r2
  BY <1>1
<1>4. q1 + q2 \in Nat /\ a + b \in Nat
  BY <1>2
<1>5. \A x, q \in Nat, r \in 0..(n - 1) : x = n * q + r => x % n = r
  BY ModUnique
<1>6. (a + b) % n = r2
  <2>1. a + b = n * (q1 + q2) + r2 => (a + b) % n = r2
    BY <1>2, <1>4, <1>5
  <2>2. QED
    BY <1>3, <2>1
<1>7. QED
  BY <1>6

\* Filling one more buffer moves the cycle on by BufSamples.
LEMMA OffsetStep ==
  ASSUME NEW k \in Nat
  PROVE  (Offset(k) + BufSamples) % IdataLen = Offset(k + 1)
<1>1. (k + 1) * BufSamples = k * BufSamples + BufSamples
  OBVIOUS
<1>2. (((k * BufSamples) % IdataLen) + BufSamples) % IdataLen
        = (k * BufSamples + BufSamples) % IdataLen
  <2>1. k * BufSamples \in Nat
    OBVIOUS
  <2>2. QED
    BY <2>1, ModAdd
<1>3. QED
  BY <1>1, <1>2 DEF Offset

\* An offset is an index of idata, never the NoBuf marker.
LEMMA OffsetRange ==
  ASSUME NEW k \in Nat
  PROVE  Offset(k) \in 0..(IdataLen - 1)
  BY DEF Offset

\* Accepting the buffer that starts at Offset(Len(played)) keeps the
\* stream continuous.
LEMMA AppendContinuous ==
  ASSUME StreamContinuous, played \in Seq(Nat),
         played' = Append(played, Offset(Len(played)))
  PROVE  StreamContinuous'
<1> DEFINE k == Len(played)
<1> SUFFICES ASSUME NEW i \in 1..(k + 1) PROVE played'[i] = Offset(i - 1)
  BY DEF StreamContinuous, Offset
<1>1. CASE i <= k
  BY <1>1 DEF StreamContinuous, Offset
<1>2. CASE i = k + 1
  BY <1>2
<1>3. QED
  BY <1>1, <1>2

LEMMA InitIInv == Init => IInv
<1> SUFFICES ASSUME Init PROVE IInv
  OBVIOUS
<1>1. TypeOK
  <2>1. played \in Seq(0..(IdataLen - 1))
    BY DEF Init
  <2>2. cursor \in 0..(IdataLen - 1) /\ pending \in 0..IdataLen
    BY DEF Init, NoBuf
  <2>3. iters \in 0..Iters
    BY DEF Init
  <2>5. exited \in BOOLEAN
    BY Zenon DEF Init
  <2>4. QED
    BY <2>1, <2>2, <2>3, <2>5 DEF TypeOK
<1>2. cursor = Offset(Len(played) + Held)
  BY DEF Init, Offset, Held
<1>3. QED
  BY <1>1, <1>2 DEF Init, IInv, StreamContinuous

LEMMA PassIInv ==
  ASSUME IInv, NEW ok \in BOOLEAN, Pass(ok)
  PROVE  IInv'
<1> USE DEF IInv, TypeOK
<1> DEFINE k == Len(played)
<1>0. k \in Nat
  OBVIOUS
<1>1. CASE pending # NoBuf
  <2>1. NextBuf = Offset(k) /\ cursor' = cursor
    BY <1>1 DEF NextBuf, Advance, Pass
  <2>2. CASE ok
    <3>1. played' = Append(played, Offset(k)) /\ pending' = NoBuf
      BY <1>1, <2>1, <2>2 DEF Pass
    <3>2. cursor' = Offset(Len(played') + Held')
      BY <1>1, <2>1, <3>1 DEF Held
    <3>3. StreamContinuous'
      BY <1>0, <3>1, AppendContinuous
    <3>4. TypeOK'
      BY <3>1, <2>1, <2>2, OffsetRange DEF Pass, NoBuf
    <3>5. QED
      BY <3>1, <3>2, <3>3, <3>4
  <2>3. CASE ~ok
    <3>1. played' = played /\ pending' = Offset(k)
      BY <1>1, <2>1, <2>3 DEF Pass
    <3>2. Offset(k) # NoBuf
      BY <1>0, OffsetRange DEF NoBuf
    <3>3. cursor' = Offset(Len(played') + Held')
      BY <1>1, <2>1, <3>1, <3>2 DEF Held
    <3>4. QED
      BY <2>1, <2>3, <3>1, <3>2, <3>3, OffsetRange DEF Pass, StreamContinuous
  <2>4. QED
    BY <2>2, <2>3
<1>2. CASE pending = NoBuf
  <2>1. NextBuf = Offset(k) /\ cursor' = Offset(k + 1)
    BY <1>0, <1>2, OffsetStep DEF NextBuf, Advance, Held, Pass
  <2>2. CASE ok
    <3>1. played' = Append(played, Offset(k)) /\ pending' = NoBuf
      BY <1>2, <2>1, <2>2 DEF Pass
    <3>2. cursor' = Offset(Len(played') + Held')
      BY <2>1, <3>1 DEF Held
    <3>3. StreamContinuous'
      BY <1>0, <3>1, AppendContinuous
    <3>4. TypeOK'
      BY <1>0, <2>1, <3>1, <2>2, OffsetRange DEF Pass, NoBuf
    <3>5. QED
      BY <3>1, <3>2, <3>3, <3>4
  <2>3. CASE ~ok
    <3>1. played' = played /\ pending' = Offset(k)
      BY <1>2, <2>1, <2>3 DEF Pass
    <3>2. Offset(k) # NoBuf
      BY <1>0, OffsetRange DEF NoBuf
    <3>3. cursor' = Offset(Len(played') + Held')
      BY <2>1, <3>1, <3>2 DEF Held
    <3>4. QED
      BY <1>0, <2>1, <2>3, <3>1, <3>2, <3>3, OffsetRange DEF Pass, StreamContinuous
  <2>4. QED
    BY <2>2, <2>3
<1>3. QED
  BY <1>1, <1>2

LEMMA StepIInv == IInv /\ [Next]_vars => IInv'
<1> SUFFICES ASSUME IInv, [Next]_vars PROVE IInv'
  OBVIOUS
<1>1. CASE \E ok \in BOOLEAN : Pass(ok)
  BY <1>1, PassIInv
<1>2. CASE Exit
  BY <1>2 DEF Exit, IInv, TypeOK, StreamContinuous, Offset, Held
<1>3. CASE UNCHANGED vars
  BY <1>3 DEF vars, IInv, TypeOK, StreamContinuous, Offset, Held
<1>4. QED
  BY <1>1, <1>2, <1>3 DEF Next

(***************************************************************************)
(* Whatever sends the SPIM driver refuses, the buffers it accepts from     *)
(* the idle loop form one continuous stream of the cycled idata: the       *)
(* already_calcd retry neither skips nor replays a buffer.                 *)
(***************************************************************************)
THEOREM Continuous == Spec => []StreamContinuous
<1>1. IInv => StreamContinuous
  BY DEF IInv
<1>2. QED
  BY <1>1, InitIInv, StepIInv, PTL DEF Spec

(***************************************************************************)
(* Type correctness of the idle loop: the cycled iterator's position stays *)
(* inside idata, already_calcd holds a buffer start or nothing, and the    *)
(* pass count never exceeds its bound.  It follows from IInv.              *)
(***************************************************************************)
THEOREM TypeCorrect == Spec => []TypeOK
<1>1. IInv => TypeOK
  BY DEF IInv
<1>2. QED
  BY <1>1, InitIInv, StepIInv, PTL DEF Spec
=============================================================================
