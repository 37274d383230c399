-------------------------- MODULE AccumulatorProofs --------------------------
(***************************************************************************)
(* Proofs about Accumulator::feed and the driver of its contract, for      *)
(* every buffer size N and every stream: feed() keeps buf[..idx] within    *)
(* its N bytes and free of sentinels, and hands back frames and remainders *)
(* that are slices of what it was given.                                   *)
(***************************************************************************)
EXTENDS Accumulator, SequenceTheorems, WellFoundedInduction, TLAPS

USE NAssumption, DataAssumption, BoundsAssumption

(***************************************************************************)
(* The first sentinel of a window that has one exists: the code's          *)
(* position() finds it, and the CHOOSE of FirstSentinel names it.  The     *)
(* least index comes from the well-foundedness of < on Nat.                *)
(***************************************************************************)
LEMMA SentinelMin ==
  ASSUME NEW w \in Seq(Byte), HasSentinel(w)
  PROVE  /\ FirstSentinel(w) \in 1..Len(w)
         /\ w[FirstSentinel(w)] = Sentinel
         /\ \A j \in 1..(FirstSentinel(w) - 1) : w[j] # Sentinel
<1> DEFINE T == {i \in 1..Len(w) : w[i] = Sentinel}
<1>1. T \subseteq Nat /\ T # {}
  BY DEF HasSentinel
<1>2. \E x \in T : \A y \in T : ~(<<y, x>> \in OpToRel(<, Nat))
  <2> HIDE DEF T
  <2> QED
    BY <1>1, WFMin, NatLessThanWellFounded
<1>3. PICK x \in T : \A y \in T : ~(<<y, x>> \in OpToRel(<, Nat))
  BY <1>2
<1>4. ASSUME NEW j \in 1..(x - 1), w[j] = Sentinel PROVE FALSE
  <2>1. j \in T /\ j \in Nat /\ x \in Nat /\ j < x
    BY <1>4
  <2>2. <<j, x>> \in OpToRel(<, Nat)
    BY <2>1, Zenon DEF OpToRel
  <2>3. QED
    BY <2>1, <2>2, <1>3
<1>5. \E i \in 1..Len(w) : w[i] = Sentinel /\ \A j \in 1..(i - 1) : w[j] # Sentinel
  BY <1>3, <1>4
<1>6. QED
  BY <1>5 DEF FirstSentinel

\* A window without a sentinel carries payload bytes only.
LEMMA NoSentinelData ==
  ASSUME NEW w \in Seq(Byte), ~HasSentinel(w)
  PROVE  w \in Seq(Data)
<1>1. \A i \in 1..Len(w) : w[i] \in Data
  BY DEF HasSentinel, Byte
<1>2. QED
  BY <1>1, LenProperties

(***************************************************************************)
(* What one feed() call returns, whatever the window: buf[..idx] stays a   *)
(* sequence of payload bytes of at most N bytes (the Ok(None) arm appends  *)
(* only when idx + len <= N, every other arm resets idx or leaves it), and *)
(* the frame and the remainder are slices of the bytes fed.                *)
(***************************************************************************)
LEMMA FeedType ==
  ASSUME NEW b \in Seq(Data), Len(b) <= N, NEW w \in Seq(Byte)
  PROVE  /\ Feed(b, w).buf \in Seq(Data)
         /\ Len(Feed(b, w).buf) <= N
         /\ Feed(b, w).frame \in Seq(Byte)
         /\ Feed(b, w).rest \in Seq(Byte)
<1> DEFINE n == FirstSentinel(w) - 1
           idx == Len(b)
<1>0. b \in Seq(Byte) /\ idx \in Nat /\ Len(w) \in Nat
  BY LenProperties DEF Byte
<1>1. CASE HasSentinel(w)
  <2>1. n \in 0..(Len(w) - 1)
    BY <1>1, SentinelMin
  <2>2. SubSeq(w, 1, n + 1) \in Seq(Byte) /\ SubSeq(w, n + 2, Len(w)) \in Seq(Byte)
    BY <2>1, SubSeqProperties, LenProperties
  <2>3. b \o SubSeq(w, 1, n + 1) \in Seq(Byte)
    BY <1>0, <2>2, ConcatProperties
  <2>4. <<>> \in Seq(Data) /\ <<>> \in Seq(Byte) /\ Len(<<>>) = 0
    BY EmptySeq
  <2>5. CASE idx + n <= N /\ idx + n + 1 > N
    <3>1. Feed(b, w) = FeedResult("Panic", b, <<>>, <<>>)
      BY <1>0, <1>1, <2>1, <2>5 DEF Feed
    <3>2. QED
      BY <3>1, <2>4 DEF FeedResult
  <2>6. CASE idx + n + 1 <= N
    <3>1. Feed(b, w) = FeedResult("Frame", <<>>, b \o SubSeq(w, 1, n + 1),
                                  SubSeq(w, n + 2, Len(w)))
      BY <1>1, <2>1, <2>6, <1>0 DEF Feed
    <3>2. QED
      BY <3>1, <2>2, <2>3, <2>4 DEF FeedResult
  <2>7. CASE idx + n > N
    <3>1. Feed(b, w) = FeedResult("NoRoomWithRem", <<>>, <<>>, SubSeq(w, n + 2, Len(w)))
      BY <1>1, <2>1, <2>7 DEF Feed
    <3>2. QED
      BY <3>1, <2>2, <2>4 DEF FeedResult
  <2>8. QED
    BY <2>1, <2>5, <2>6, <2>7, <1>0
<1>2. CASE ~HasSentinel(w)
  <2>1. w \in Seq(Data)
    BY <1>2, NoSentinelData
  <2>2. b \o w \in Seq(Data) /\ Len(b \o w) = idx + Len(w)
    BY <2>1, ConcatProperties
  <2>3. <<>> \in Seq(Data) /\ <<>> \in Seq(Byte) /\ Len(<<>>) = 0
    BY EmptySeq
  <2>4. CASE idx + Len(w) <= N
    <3>1. Feed(b, w) = FeedResult("None", b \o w, <<>>, w)
      BY <1>2, <2>4 DEF Feed
    <3>2. QED
      BY <3>1, <2>1, <2>2, <2>3, <2>4 DEF FeedResult, Byte
  <2>5. CASE idx + Len(w) > N
    <3>1. Feed(b, w) = FeedResult("NoRoomNoRem", <<>>, <<>>, <<>>)
      BY <1>2, <2>5 DEF Feed
    <3>2. QED
      BY <3>1, <2>3 DEF FeedResult
  <2>6. QED
    BY <2>4, <2>5, <1>0
<1>3. QED
  BY <1>1, <1>2

\* The initial states of the driver are well typed.
LEMMA InitTypeOK == Init => TypeOK
<1> SUFFICES ASSUME Init PROVE TypeOK
  OBVIOUS
<1>1. PICK m \in 0..MaxStream : stream \in [1..m -> Byte]
  BY DEF Init, Streams, SeqsUpTo
<1>2. stream \in Seq(Byte)
  BY <1>1
<1>3. <<>> \in Seq(Data) /\ <<>> \in Seq(Byte) /\ <<>> \in Seq(Seq(Byte))
      /\ Len(<<>>) = 0
  BY EmptySeq
<1>4. buf \in Seq(Data) /\ Len(buf) <= N /\ window \in Seq(Byte)
  BY <1>3 DEF Init
<1>5. input \in Seq(Byte) /\ out \in Seq(Seq(Byte)) /\ panicked \in BOOLEAN
  BY <1>2, <1>3 DEF Init
<1>6. QED
  BY <1>2, <1>4, <1>5 DEF TypeOK

\* Every step of the driver keeps it well typed.
LEMMA StepTypeOK == TypeOK /\ [Next]_vars => TypeOK'
<1> SUFFICES ASSUME TypeOK, [Next]_vars PROVE TypeOK'
  OBVIOUS
<1>1. ASSUME NEW k \in 1..MaxWindow, NextWindow(k) PROVE TypeOK'
  <2>1. k \in 1..Len(stream) /\ stream \in Seq(Byte)
    BY <1>1 DEF NextWindow, TypeOK
  <2>2. SubSeq(stream, 1, k) \in Seq(Byte)
        /\ SubSeq(stream, k + 1, Len(stream)) \in Seq(Byte)
    BY <2>1, SubSeqProperties, LenProperties
  <2>3. QED
    BY <1>1, <2>2 DEF NextWindow, TypeOK
<1>2. CASE FeedWindow
  <2>1. /\ Feed(buf, window).buf \in Seq(Data)
        /\ Len(Feed(buf, window).buf) <= N
        /\ Feed(buf, window).frame \in Seq(Byte)
        /\ Feed(buf, window).rest \in Seq(Byte)
    BY FeedType DEF TypeOK
  <2>2. Append(out, Feed(buf, window).frame) \in Seq(Seq(Byte))
    BY <2>1, AppendProperties DEF TypeOK
  <2>3. <<>> \in Seq(Byte)
    BY EmptySeq
  <2> HIDE DEF Feed
  <2>4. QED
    BY <1>2, <2>1, <2>2, <2>3 DEF FeedWindow, TypeOK
<1>3. CASE UNCHANGED vars
  BY <1>3 DEF vars, TypeOK
<1>4. QED
  BY <1>1, <1>2, <1>3 DEF Next

(***************************************************************************)
(* Type correctness of the driver: feed() never grows buf[..idx] past N    *)
(* bytes, and every window and remainder the driver feeds is a slice of   *)
(* the stream.                                                             *)
(***************************************************************************)
THEOREM TypeCorrect == Spec => []TypeOK
  BY InitTypeOK, StepTypeOK, PTL DEF Spec


-----------------------------------------------------------------------------
(***************************************************************************)
(* feed() never panics on a stream of frames shorter than the buffer.      *)
(* The copy of the first arm overruns self.buf only when idx + n = N, with *)
(* n the sentinel's position: the payload of the frame being assembled,    *)
(* the idx bytes already accumulated and the n bytes before the sentinel,  *)
(* fills the whole buffer.  NoPanic is not inductive: it needs what the    *)
(* driver has not fed yet, Unfed, to keep the stream's bound on runs, and  *)
(* the bytes accumulated in buf to count against the run they start.      *)
(***************************************************************************)

\* Every run of payload bytes of R is at most MaxRun long.
RunsOK(R) ==
  \A i, j \in 1..Len(R) :
    (i <= j /\ \A k \in i..j : R[k] # Sentinel) => j - i + 1 <= MaxRun

\* The run R starts with, added to the Len(b) bytes of b, is at most MaxRun.
LeadOK(b, R) ==
  \A j \in 1..Len(R) : (\A k \in 1..j : R[k] # Sentinel) => Len(b) + j <= MaxRun

\* The bytes of the stream the driver has not fed yet.
Unfed == window \o stream

NoPanicInv ==
  /\ TypeOK
  /\ ~panicked
  /\ Len(buf) <= MaxRun
  /\ RunsOK(Unfed)
  /\ LeadOK(buf, Unfed)

\* A suffix of a sequence of bytes keeps its bound on runs.
LEMMA ShiftRuns ==
  ASSUME NEW R \in Seq(Byte), NEW R2 \in Seq(Byte), NEW m \in Nat,
         Len(R2) + m <= Len(R), \A i \in 1..Len(R2) : R2[i] = R[i + m],
         RunsOK(R)
  PROVE  RunsOK(R2)
<1> SUFFICES ASSUME NEW i \in 1..Len(R2), NEW j \in 1..Len(R2), i <= j,
                    \A k \in i..j : R2[k] # Sentinel
             PROVE  j - i + 1 <= MaxRun
  BY DEF RunsOK
<1>1. \A k \in (i + m)..(j + m) : R[k] # Sentinel
  <2> SUFFICES ASSUME NEW k \in (i + m)..(j + m) PROVE R[k] # Sentinel
    OBVIOUS
  <2>1. k - m \in i..j /\ k - m \in 1..Len(R2) /\ k = (k - m) + m
    OBVIOUS
  <2> QED
    BY <2>1
<1>2. i + m \in 1..Len(R) /\ j + m \in 1..Len(R) /\ i + m <= j + m
  OBVIOUS
<1> QED
  BY <1>1, <1>2 DEF RunsOK

\* With nothing accumulated, the bound on runs bounds the leading run.
LEMMA FreshLead ==
  ASSUME NEW R \in Seq(Byte), RunsOK(R)
  PROVE  LeadOK(<<>>, R)
<1> SUFFICES ASSUME NEW j \in 1..Len(R), \A k \in 1..j : R[k] # Sentinel
             PROVE  Len(<<>>) + j <= MaxRun
  BY DEF LeadOK
<1>1. Len(<<>>) = 0
  BY EmptySeq
<1> QED
  BY <1>1 DEF RunsOK

(***************************************************************************)
(* Moving m payload bytes from the front of the unfed bytes into buf keeps *)
(* the leading run, added to what buf holds, within its bound.            *)
(***************************************************************************)
LEMMA ShiftLead ==
  ASSUME NEW R \in Seq(Byte), NEW R2 \in Seq(Byte), NEW m \in Nat,
         Len(R2) + m <= Len(R), \A i \in 1..Len(R2) : R2[i] = R[i + m],
         NEW b \in Seq(Data), NEW b2 \in Seq(Data), Len(b2) = Len(b) + m,
         \A k \in 1..m : R[k] # Sentinel,
         LeadOK(b, R)
  PROVE  LeadOK(b2, R2)
<1> SUFFICES ASSUME NEW j \in 1..Len(R2), \A k \in 1..j : R2[k] # Sentinel
             PROVE  Len(b2) + j <= MaxRun
  BY DEF LeadOK
<1>1. \A k \in 1..(j + m) : R[k] # Sentinel
  <2> SUFFICES ASSUME NEW k \in 1..(j + m) PROVE R[k] # Sentinel
    OBVIOUS
  <2>1. CASE k <= m
    BY <2>1
  <2>2. CASE k > m
    <3>1. k - m \in 1..j /\ k - m \in 1..Len(R2) /\ k = (k - m) + m
      BY <2>2
    <3> QED
      BY <3>1
  <2> QED
    BY <2>1, <2>2
<1>2. j + m \in 1..Len(R) /\ Len(b) \in Nat
  BY LenProperties
<1> QED
  BY <1>1, <1>2 DEF LeadOK

(***************************************************************************)
(* Dropping the first m bytes of the window w (w2 is what is left of it)   *)
(* drops the first m bytes of w \o s.                                      *)
(***************************************************************************)
LEMMA ConcatShift ==
  ASSUME NEW w \in Seq(Byte), NEW s \in Seq(Byte), NEW m \in 0..Len(w),
         NEW w2 \in Seq(Byte), Len(w2) = Len(w) - m,
         \A i \in 1..Len(w2) : w2[i] = w[i + m]
  PROVE  /\ w2 \o s \in Seq(Byte)
         /\ w \o s \in Seq(Byte)
         /\ Len(w2 \o s) + m = Len(w \o s)
         /\ \A i \in 1..Len(w2 \o s) : (w2 \o s)[i] = (w \o s)[i + m]
<1>1. /\ w2 \o s \in Seq(Byte)
      /\ Len(w2 \o s) = Len(w2) + Len(s)
      /\ \A i \in 1..Len(w2) + Len(s) : (w2 \o s)[i] =
            IF i <= Len(w2) THEN w2[i] ELSE s[i - Len(w2)]
  BY ConcatProperties
<1>2. /\ w \o s \in Seq(Byte)
      /\ Len(w \o s) = Len(w) + Len(s)
      /\ \A i \in 1..Len(w) + Len(s) : (w \o s)[i] =
            IF i <= Len(w) THEN w[i] ELSE s[i - Len(w)]
  BY ConcatProperties
<1>3. Len(w) \in Nat /\ Len(s) \in Nat /\ Len(w2) \in Nat
  BY LenProperties
<1> QED
  BY <1>1, <1>2, <1>3

(***************************************************************************)
(* Feeding the first m bytes of the window w: what is left unfed, the rest *)
(* of w followed by the stream s, keeps the bound on runs, and a buffer    *)
(* that takes the m fed payload bytes keeps its leading run within bound.  *)
(***************************************************************************)
LEMMA SuffixFacts ==
  ASSUME NEW w \in Seq(Byte), NEW s \in Seq(Byte), NEW m \in 0..Len(w)
  PROVE  LET R  == w \o s
             R2 == SubSeq(w, m + 1, Len(w)) \o s
         IN  /\ R2 \in Seq(Byte)
             /\ RunsOK(R) => RunsOK(R2)
             /\ \A b, b2 \in Seq(Data) :
                  (/\ Len(b2) = Len(b) + m
                   /\ \A k \in 1..m : w[k] # Sentinel
                   /\ LeadOK(b, R))
                  => LeadOK(b2, R2)
<1> DEFINE R  == w \o s
           w2 == SubSeq(w, m + 1, Len(w))
           R2 == w2 \o s
<1>1. /\ w2 \in Seq(Byte) /\ Len(w2) = Len(w) - m
      /\ \A i \in 1..Len(w2) : w2[i] = w[i + m]
  BY SubSeqProperties, LenProperties
<1>2. /\ R2 \in Seq(Byte) /\ R \in Seq(Byte)
      /\ Len(R2) + m <= Len(R)
      /\ \A i \in 1..Len(R2) : R2[i] = R[i + m]
  <2> HIDE DEF w2
  <2> QED
    BY <1>1, ConcatShift
<1>3. \A k \in 1..m : R[k] = w[k]
  BY ConcatProperties, LenProperties
<1> HIDE DEF R, R2, w2
<1>4. RunsOK(R) => RunsOK(R2)
  BY <1>2, ShiftRuns
<1>5. ASSUME NEW b \in Seq(Data), NEW b2 \in Seq(Data),
             Len(b2) = Len(b) + m, \A k \in 1..m : w[k] # Sentinel,
             LeadOK(b, R)
      PROVE  LeadOK(b2, R2)
  <2>1. \A k \in 1..m : R[k] # Sentinel
    BY <1>3, <1>5
  <2> QED
    BY <1>2, <1>5, <2>1, ShiftLead
<1> QED
  BY <1>2, <1>4, <1>5, Zenon DEF R, R2, w2

\* The driver starts in a state of NoPanicInv: the stream keeps its bound on runs.
LEMMA InitNoPanicInv == Init => NoPanicInv
<1> SUFFICES ASSUME Init PROVE NoPanicInv
  OBVIOUS
<1>1. TypeOK
  BY InitTypeOK
<1>2. Unfed = stream /\ stream \in Seq(Byte)
  BY <1>1, ConcatEmptySeq DEF Init, TypeOK, Unfed
<1>3. RunsOK(stream)
  BY DEF Init, Streams, RunsOK
<1>4. LeadOK(<<>>, stream)
  BY <1>2, <1>3, FreshLead
<1>5. Len(buf) <= MaxRun
  BY EmptySeq DEF Init
<1> QED
  BY <1>1, <1>2, <1>3, <1>4, <1>5 DEF Init, NoPanicInv

(***************************************************************************)
(* Each step keeps NoPanicInv when every frame is shorter than the buffer. *)
(* A window with a sentinel then always takes feed()'s first arm with room *)
(* for the sentinel (idx + n + 1 <= N), and a window without one always    *)
(* fits (the Ok(None) arm): the other arms are never taken.                *)
(***************************************************************************)
LEMMA StepNoPanicInv ==
  ASSUME MaxRun < N, NoPanicInv, [Next]_vars
  PROVE  NoPanicInv'
<1>0. TypeOK /\ TypeOK'
  BY StepTypeOK DEF NoPanicInv
<1>1. ASSUME NEW k \in 1..MaxWindow, NextWindow(k) PROVE NoPanicInv'
  <2>1. window = <<>> /\ k \in 1..Len(stream) /\ stream \in Seq(Byte)
        /\ Len(stream) \in Nat
    BY <1>0, <1>1, LenProperties DEF NextWindow, TypeOK
  <2>2. Unfed = stream
    BY <2>1, ConcatEmptySeq DEF Unfed
  <2>3. /\ window' \in Seq(Byte) /\ Len(window') = k
        /\ \A i \in 1..k : window'[i] = stream[i]
        /\ stream' \in Seq(Byte) /\ Len(stream') = Len(stream) - k
        /\ \A i \in 1..Len(stream) - k : stream'[i] = stream[k + i]
    BY <1>1, <2>1, SubSeqProperties DEF NextWindow
  <2>4. /\ Unfed' \in Seq(Byte) /\ Len(Unfed') = Len(stream)
        /\ \A i \in 1..Len(stream) : Unfed'[i] = stream[i]
    <3>1. /\ window' \o stream' \in Seq(Byte)
          /\ Len(window' \o stream') = Len(window') + Len(stream')
          /\ \A i \in 1..Len(window') + Len(stream') : (window' \o stream')[i] =
                IF i <= Len(window') THEN window'[i] ELSE stream'[i - Len(window')]
      BY <2>3, ConcatProperties
    <3> QED
      BY <2>1, <2>3, <3>1 DEF Unfed
  <2>5. Unfed' = stream
    BY <2>1, <2>4, SeqEqual
  <2> QED
    BY <1>0, <1>1, <2>2, <2>5 DEF NextWindow, NoPanicInv
<1>2. CASE FeedWindow
  <2> DEFINE w == window
             b == buf
  <2>0. /\ w \in Seq(Byte) /\ w # <<>> /\ stream \in Seq(Byte)
        /\ b \in Seq(Data) /\ Len(b) \in Nat /\ Len(w) \in Nat
        /\ Len(b) <= MaxRun /\ RunsOK(Unfed) /\ LeadOK(b, Unfed)
        /\ N \in Nat /\ MaxRun \in Nat /\ Len(stream) \in Nat
    BY <1>0, <1>2, LenProperties DEF FeedWindow, TypeOK, NoPanicInv
  <2>1. /\ Unfed \in Seq(Byte) /\ Len(Unfed) = Len(w) + Len(stream)
        /\ \A i \in 1..Len(w) : Unfed[i] = w[i]
    BY <2>0, ConcatProperties DEF Unfed
  <2>2. CASE HasSentinel(w)
    <3>0. /\ FirstSentinel(w) \in 1..Len(w)
          /\ \A j \in 1..(FirstSentinel(w) - 1) : w[j] # Sentinel
      BY <2>0, <2>2, SentinelMin
    <3>1. PICK n \in 0..(Len(w) - 1) : n = FirstSentinel(w) - 1
      BY <3>0
    <3>9. \A j \in 1..n : w[j] # Sentinel
      BY <3>0, <3>1, Zenon
    <3>2. Len(b) + n <= MaxRun
      <4>1. CASE n = 0
        BY <4>1, <2>0
      <4>2. CASE n # 0
        <5>1. n \in 1..Len(w) /\ n \in 1..Len(Unfed)
          BY <4>2, <2>1, <2>0
        <5>2. \A j \in 1..n : Unfed[j] # Sentinel
          BY <5>1, <3>9, <2>1
        <5> QED
          BY <5>1, <5>2, <2>0 DEF LeadOK
      <4> QED
        BY <4>1, <4>2
    <3>3. Feed(b, w) = FeedResult("Frame", <<>>, b \o SubSeq(w, 1, n + 1),
                                   SubSeq(w, n + 2, Len(w)))
      BY <2>0, <2>2, <3>1, <3>2 DEF Feed
    <3> DEFINE w2 == SubSeq(w, n + 2, Len(w))
    <3>4. buf' = <<>> /\ window' = w2 /\ panicked' = FALSE /\ stream' = stream
      <4>1. Feed(b, w).res = "Frame" /\ Feed(b, w).buf = <<>> /\ Feed(b, w).rest = w2
        BY <3>3 DEF FeedResult
      <4> HIDE DEF Feed, w2
      <4> QED
        BY <1>2, <4>1 DEF FeedWindow
    <3>5. /\ window' = SubSeq(w, (n + 1) + 1, Len(w))
          /\ Unfed' = SubSeq(w, (n + 1) + 1, Len(w)) \o stream
      <4>1. window' = SubSeq(w, (n + 1) + 1, Len(w))
        <5>1. (n + 1) + 1 = n + 2
          OBVIOUS
        <5> QED
          BY <3>4, <5>1
      <4> QED
        BY <3>4, <4>1 DEF Unfed
    <3>6. /\ SubSeq(w, (n + 1) + 1, Len(w)) \o stream \in Seq(Byte)
          /\ RunsOK(w \o stream) => RunsOK(SubSeq(w, (n + 1) + 1, Len(w)) \o stream)
      <4>1. n + 1 \in 0..Len(w)
        OBVIOUS
      <4> QED
        BY <2>0, <4>1, SuffixFacts
    <3>7. Unfed' \in Seq(Byte) /\ RunsOK(Unfed')
      BY <2>0, <3>5, <3>6 DEF Unfed
    <3>8. LeadOK(buf', Unfed') /\ Len(buf') <= MaxRun
      BY <2>0, <3>4, <3>7, FreshLead, EmptySeq
    <3> QED
      BY <1>0, <3>4, <3>7, <3>8 DEF NoPanicInv
  <2>3. CASE ~HasSentinel(w)
    <3>1. w \in Seq(Data) /\ \A j \in 1..Len(w) : w[j] # Sentinel
      BY <2>0, <2>3, NoSentinelData DEF HasSentinel
    <3>2. Len(b) + Len(w) <= MaxRun
      <4>1. Len(w) \in 1..Len(Unfed)
        BY <2>1, <2>0, EmptySeq
      <4>2. \A j \in 1..Len(w) : Unfed[j] # Sentinel
        BY <3>1, <2>1
      <4> QED
        BY <4>1, <4>2, <2>0 DEF LeadOK
    <3>3. Feed(b, w) = FeedResult("None", b \o w, <<>>, w)
      BY <2>0, <2>3, <3>2 DEF Feed
    <3>4. buf' = b \o w /\ window' = <<>> /\ panicked' = FALSE /\ stream' = stream
      <4>1. Feed(b, w).res = "None" /\ Feed(b, w).buf = b \o w
        BY <3>3 DEF FeedResult
      <4> HIDE DEF Feed
      <4> QED
        BY <1>2, <4>1 DEF FeedWindow
    <3>5. b \o w \in Seq(Data) /\ Len(b \o w) = Len(b) + Len(w)
      BY <2>0, <3>1, ConcatProperties
    <3>6. Unfed' = SubSeq(w, Len(w) + 1, Len(w)) \o stream
      <4>1. SubSeq(w, Len(w) + 1, Len(w)) = <<>>
        BY <2>0, SubSeqEmpty
      <4> QED
        BY <3>4, <4>1 DEF Unfed
    <3>9. /\ SubSeq(w, Len(w) + 1, Len(w)) \o stream \in Seq(Byte)
          /\ RunsOK(w \o stream) => RunsOK(SubSeq(w, Len(w) + 1, Len(w)) \o stream)
          /\ \A bb, bb2 \in Seq(Data) :
               (/\ Len(bb2) = Len(bb) + Len(w)
                /\ \A k \in 1..Len(w) : w[k] # Sentinel
                /\ LeadOK(bb, w \o stream))
               => LeadOK(bb2, SubSeq(w, Len(w) + 1, Len(w)) \o stream)
      <4>1. Len(w) \in 0..Len(w)
        BY <2>0
      <4> QED
        BY <2>0, <4>1, SuffixFacts
    <3>7. RunsOK(Unfed')
      BY <2>0, <3>6, <3>9 DEF Unfed
    <3>8. LeadOK(buf', Unfed')
      BY <2>0, <3>1, <3>4, <3>5, <3>6, <3>9 DEF Unfed
    <3> QED
      BY <1>0, <3>2, <3>4, <3>5, <3>7, <3>8 DEF NoPanicInv
  <2> QED
    BY <2>2, <2>3
<1>3. CASE UNCHANGED vars
  BY <1>0, <1>3, Zenon DEF vars, NoPanicInv, Unfed
<1> QED
  BY <1>1, <1>2, <1>3 DEF Next

(***************************************************************************)
(* feed() never panics, for every buffer size N and every stream of frames *)
(* whose payloads are shorter than N, however the stream is cut into       *)
(* windows: the slice copy of its first arm never runs past self.buf.      *)
(* (A payload of exactly N bytes does panic: run accumulator_exact_frame.) *)
(***************************************************************************)
THEOREM NeverPanics ==
  ASSUME MaxRun < N
  PROVE  Spec => []NoPanic
<1>1. Init => NoPanicInv
  BY InitNoPanicInv
<1>2. NoPanicInv /\ [Next]_vars => NoPanicInv'
  BY StepNoPanicInv
<1>3. NoPanicInv => NoPanic
  BY DEF NoPanicInv, NoPanic
<1> QED
  BY <1>1, <1>2, <1>3, PTL DEF Spec


-----------------------------------------------------------------------------
(***************************************************************************)
(* Chunk invariance.  ChunkInvariance alone is not inductive: it says      *)
(* nothing of the frame being assembled in buf nor of where the unfed     *)
(* bytes stand in the stream.  ChunkInv says that the driver is exactly   *)
(* where one whole-stream scan is after the Fed bytes fed so far: the      *)
(* unfed bytes are the rest of input, out holds the scan's frames and buf  *)
(* its current payload.                                                    *)
(***************************************************************************)

\* The number of bytes of the stream fed to feed() so far.
Fed == Len(input) - Len(Unfed)

ChunkInv ==
  /\ NoPanicInv
  /\ Len(Unfed) <= Len(input)
  /\ \A i \in 1..Len(Unfed) : Unfed[i] = input[Fed + i]
  /\ out = Scan(input)[Fed].done
  /\ buf = Scan(input)[Fed].cur

(***************************************************************************)
(* A non-empty set of naturals has a least element.  The proofs about the  *)
(* scan below argue by a least counterexample with it, one index at a time.*)
(***************************************************************************)
LEMMA NatDescent ==
  ASSUME NEW T \in SUBSET Nat, T # {}
  PROVE  \E x \in T : \A y \in T : ~(y < x)
<1>1. PICK x \in T : \A y \in T : ~(<<y, x>> \in OpToRel(<, Nat))
  BY WFMin, NatLessThanWellFounded
<1>2. ASSUME NEW y \in T, y < x PROVE FALSE
  <2>1. <<y, x>> \in OpToRel(<, Nat)
    BY <1>2, Zenon DEF OpToRel
  <2> QED
    BY <1>1, <2>1
<1> QED
  BY <1>2

\* g is the scan of s up to index m.
ScanUpTo(g, s, m) ==
  /\ g = [i \in 0..m |-> g[i]]
  /\ g[0] = ScanInit
  /\ \A i \in 1..m : g[i] = ScanStep(g[i - 1], s[i])

\* The scan of every prefix of s exists: extend the scan of the prefix one shorter.
LEMMA ScanUpToExists ==
  ASSUME NEW s \in Seq(Byte)
  PROVE  \A m \in 0..Len(s) : \E g : ScanUpTo(g, s, m)
<1> DEFINE T == {m \in 0..Len(s) : ~\E g : ScanUpTo(g, s, m)}
<1> SUFFICES ASSUME T # {} PROVE FALSE
  BY Zenon
<1>0. \A m : m \in T <=> (m \in 0..Len(s) /\ ~\E g : ScanUpTo(g, s, m))
  BY Zenon
<1> HIDE DEF T
<1>1. T \in SUBSET Nat
  BY <1>0, LenProperties
<1>2. PICK x \in T : \A y \in T : ~(y < x)
  BY <1>1, NatDescent
<1>3. x \in 0..Len(s) /\ ~\E g : ScanUpTo(g, s, x)
  BY <1>0, <1>2, Zenon
<1>4. CASE x = 0
  <2>1. ScanUpTo([i \in 0..0 |-> ScanInit], s, 0)
    BY DEF ScanUpTo
  <2> QED
    BY <1>3, <1>4, <2>1, Zenon
<1>5. CASE x # 0
  <2>1. x \in 1..Len(s) /\ x - 1 \in 0..Len(s) /\ x - 1 < x
    BY <1>3, <1>5, LenProperties
  <2>2. x - 1 \notin T
    BY <1>2, <2>1
  <2>3. PICK g : ScanUpTo(g, s, x - 1)
    BY <1>0, <2>1, <2>2, Zenon
  <2> DEFINE h == [i \in 0..x |-> IF i < x THEN g[i] ELSE ScanStep(g[x - 1], s[x])]
  <2>4. ScanUpTo(h, s, x)
    <3>1. h[0] = ScanInit
      BY <2>3, <2>1 DEF ScanUpTo
    <3>2. ASSUME NEW i \in 1..x PROVE h[i] = ScanStep(h[i - 1], s[i])
      <4>1. CASE i < x
        <5>1. h[i] = g[i] /\ h[i - 1] = g[i - 1] /\ i \in 1..(x - 1)
          BY <2>1, <4>1
        <5>2. g[i] = ScanStep(g[i - 1], s[i])
          BY <2>3, <5>1, Zenon DEF ScanUpTo
        <5> QED
          BY <5>1, <5>2
      <4>2. CASE i = x
        BY <2>1, <4>2
      <4> QED
        BY <4>1, <4>2, <2>1
    <3> QED
      BY <3>1, <3>2 DEF ScanUpTo
  <2> QED
    BY <2>4, <1>3, Zenon
<1> QED
  BY <1>4, <1>5

\* The equations that define Scan(s) hold: the CHOOSE behind it has a witness.
LEMMA ScanDef ==
  ASSUME NEW s \in Seq(Byte)
  PROVE  /\ Scan(s)[0] = ScanInit
         /\ \A i \in 1..Len(s) : Scan(s)[i] = ScanStep(Scan(s)[i - 1], s[i])
<1>1. PICK g : ScanUpTo(g, s, Len(s))
  BY ScanUpToExists, LenProperties
<1>2. g = [i \in 0..Len(s) |-> IF i = 0 THEN ScanInit ELSE ScanStep(g[i - 1], s[i])]
  <2>1. /\ g = [i \in 0..Len(s) |-> g[i]]
        /\ g[0] = ScanInit
        /\ \A i \in 1..Len(s) : g[i] = ScanStep(g[i - 1], s[i])
    BY <1>1 DEF ScanUpTo
  <2>2. \A i \in 0..Len(s) : g[i] = IF i = 0 THEN ScanInit ELSE ScanStep(g[i - 1], s[i])
    BY <2>1, LenProperties
  <2> QED
    BY <2>1, <2>2
<1>3. \E e : e = [i \in 0..Len(s) |-> IF i = 0 THEN ScanInit ELSE ScanStep(e[i - 1], s[i])]
  BY <1>2
<1>4. Scan(s) = [i \in 0..Len(s) |-> IF i = 0 THEN ScanInit
                                    ELSE ScanStep(Scan(s)[i - 1], s[i])]
  BY <1>3 DEF Scan
<1> QED
  BY <1>4, LenProperties

\* The values of the scan.
ScanRec == [done : Seq(Seq(Byte)), cur : Seq(Byte)]

LEMMA ScanStepType ==
  ASSUME NEW x \in ScanRec, NEW b \in Byte
  PROVE  ScanStep(x, b) \in ScanRec
<1>1. CASE b # Sentinel
  <2>1. Append(x.cur, b) \in Seq(Byte)
    BY AppendProperties DEF ScanRec
  <2> QED
    BY <1>1, <2>1 DEF ScanStep, ScanRec
<1>2. CASE b = Sentinel
  <2>1. x.cur \o <<Sentinel>> \in Seq(Byte)
    <3>1. <<Sentinel>> \in Seq(Byte)
      BY DEF Byte
    <3> QED
      BY <3>1, ConcatProperties DEF ScanRec
  <2>2. Append(x.done, x.cur \o <<Sentinel>>) \in Seq(Seq(Byte))
    BY <2>1, AppendProperties DEF ScanRec
  <2>3. <<>> \in Seq(Byte)
    BY EmptySeq
  <2> QED
    BY <1>2, <2>2, <2>3 DEF ScanStep, ScanRec
<1> QED
  BY <1>1, <1>2

\* A data byte is appended to the current payload and leaves the frames alone.
LEMMA ScanStepData ==
  ASSUME NEW x \in ScanRec, NEW b \in Byte, b # Sentinel
  PROVE  ScanStep(x, b) = [done |-> x.done, cur |-> Append(x.cur, b)]
BY DEF ScanStep, ScanRec

LEMMA ScanType ==
  ASSUME NEW s \in Seq(Byte)
  PROVE  \A i \in 0..Len(s) : Scan(s)[i] \in ScanRec
<1> DEFINE T == {i \in 0..Len(s) : Scan(s)[i] \notin ScanRec}
<1> SUFFICES ASSUME T # {} PROVE FALSE
  OBVIOUS
<1>1. T \in SUBSET Nat
  BY LenProperties
<1>2. PICK x \in T : \A y \in T : ~(y < x)
  BY <1>1, NatDescent
<1>3. CASE x = 0
  <2>1. ScanInit \in ScanRec
    BY EmptySeq DEF ScanInit, ScanRec
  <2> QED
    BY <1>2, <1>3, <2>1, ScanDef
<1>4. CASE x # 0
  <2>1. x \in 1..Len(s) /\ x - 1 \in 0..Len(s) /\ x - 1 < x
    BY <1>2, <1>4, LenProperties
  <2>2. Scan(s)[x - 1] \in ScanRec
    BY <1>2, <2>1
  <2>3. s[x] \in Byte
    BY <2>1, LenProperties
  <2>4. Scan(s)[x] = ScanStep(Scan(s)[x - 1], s[x])
    BY <2>1, ScanDef
  <2> QED
    BY <1>2, <2>2, <2>3, <2>4, ScanStepType
<1> QED
  BY <1>3, <1>4

(***************************************************************************)
(* Appending the next byte of s to C followed by a slice of s extends the  *)
(* slice by one byte.                                                      *)
(***************************************************************************)
LEMMA AppendSlice ==
  ASSUME NEW C \in Seq(Byte), NEW s \in Seq(Byte), NEW p \in Nat,
         NEW k \in Nat \ {0}, p + k <= Len(s)
  PROVE  Append(C \o SubSeq(s, p + 1, p + k - 1), s[p + k])
           = C \o SubSeq(s, p + 1, p + k)
<1> DEFINE A == SubSeq(s, p + 1, p + k - 1)
           e == s[p + k]
<1>1. Len(s) \in Nat /\ e \in Byte /\ \A i \in (p + 1)..(p + k - 1) : s[i] \in Byte
  BY LenProperties
<1>2. A \in Seq(Byte) /\ <<e>> \in Seq(Byte)
  BY <1>1, SubSeqProperties
<1>3. SubSeq(s, p + 1, p + k) = A \o <<e>>
  BY <1>1, SubSeqRecursiveSecond
<1> HIDE DEF A, e
<1>4. Append(C \o A, e) = (C \o A) \o <<e>>
  <2>1. C \o A \in Seq(Byte)
    BY <1>2, ConcatProperties
  <2> QED
    BY <1>1, <2>1, AppendIsConcat
<1>5. (C \o A) \o <<e>> = C \o (A \o <<e>>)
  BY <1>2, ConcatAssociative
<1> QED
  BY <1>3, <1>4, <1>5, Zenon DEF A, e

\* AppendSlice, for the byte after the first n of the slice.
LEMMA AppendNext ==
  ASSUME NEW C \in Seq(Byte), NEW s \in Seq(Byte), NEW p \in Nat, NEW n \in Nat,
         p + (n + 1) <= Len(s)
  PROVE  Append(C \o SubSeq(s, p + 1, p + n), s[p + (n + 1)])
           = C \o SubSeq(s, p + 1, p + (n + 1))
<1>1. n + 1 \in Nat \ {0} /\ p + (n + 1) - 1 = p + n
  OBVIOUS
<1> QED
  BY <1>1, AppendSlice

(***************************************************************************)
(* While the bytes s[p+1..p+k] carry no sentinel, the scan only appends    *)
(* them to the current payload.                                            *)
(***************************************************************************)
LEMMA ScanRun ==
  ASSUME NEW s \in Seq(Byte), NEW p \in 0..Len(s)
  PROVE  \A k \in 0..(Len(s) - p) :
           (\A j \in 1..k : s[p + j] # Sentinel)
           => Scan(s)[p + k] = [done |-> Scan(s)[p].done,
                                cur |-> Scan(s)[p].cur \o SubSeq(s, p + 1, p + k)]
<1> DEFINE D == Scan(s)[p].done
           C == Scan(s)[p].cur
           Run(k) == Scan(s)[p + k] = [done |-> D, cur |-> C \o SubSeq(s, p + 1, p + k)]
           Clean(k) == \A j \in 1..k : s[p + j] # Sentinel
           T == {k \in 0..(Len(s) - p) : Clean(k) /\ ~Run(k)}
<1> SUFFICES ASSUME T # {} PROVE FALSE
  BY Zenon
<1>0. \A k : k \in T <=> (k \in 0..(Len(s) - p) /\ Clean(k) /\ ~Run(k))
  BY Zenon
<1>a. Len(s) \in Nat /\ Scan(s)[p] \in ScanRec
  BY ScanType, LenProperties
<1>b. C \in Seq(Byte) /\ Scan(s)[p] = [done |-> D, cur |-> C]
  BY <1>a DEF ScanRec
<1> HIDE DEF T, Run, D, C
<1>1. T \in SUBSET Nat
  BY <1>0, <1>a
<1>2. PICK x \in T : \A y \in T : ~(y < x)
  BY <1>1, NatDescent
<1>3. x \in 0..(Len(s) - p) /\ Clean(x) /\ ~Run(x)
  BY <1>0, <1>2, Zenon
<1>4. CASE x = 0
  <2>1. SubSeq(s, p + 1, p + 0) = <<>>
    BY SubSeqEmpty
  <2>2. C \o <<>> = C
    BY <1>b, ConcatEmptySeq
  <2>3. Scan(s)[p + 0] = Scan(s)[p]
    OBVIOUS
  <2>4. Run(0)
    BY <1>b, <2>1, <2>2, <2>3 DEF Run
  <2> QED
    BY <1>3, <1>4, <2>4
<1>5. CASE x # 0
  <2>1. x - 1 \in 0..(Len(s) - p) /\ x - 1 < x /\ p + x \in 1..Len(s)
        /\ x \in Nat \ {0} /\ p \in Nat /\ p + x <= Len(s)
    BY <1>3, <1>5, <1>a
  <2>2. Run(x - 1)
    <3>1. Clean(x - 1)
      <4>1. \A j \in 1..(x - 1) : j \in 1..x
        BY <2>1
      <4> QED
        BY <1>3, <4>1, Zenon
    <3>2. x - 1 \notin T
      BY <1>2, <2>1
    <3> QED
      BY <1>0, <2>1, <3>1, <3>2, Zenon
  <2>3. Scan(s)[p + x] = ScanStep(Scan(s)[p + x - 1], s[p + x])
    BY <2>1, ScanDef
  <2>4. s[p + x] # Sentinel
    BY <1>3, <2>1
  <2> DEFINE E == C \o SubSeq(s, p + 1, p + x - 1)
  <2>5. Scan(s)[p + x - 1] = [done |-> D, cur |-> E]
    <3>1. p + (x - 1) = p + x - 1 /\ p + (x - 1) + 0 = p + x - 1
      BY <2>1
    <3> QED
      BY <2>2, <3>1 DEF Run
  <2> HIDE DEF E
  <2>6. ScanStep(Scan(s)[p + x - 1], s[p + x])
          = [done |-> Scan(s)[p + x - 1].done, cur |-> Append(Scan(s)[p + x - 1].cur, s[p + x])]
    <3>1. Scan(s)[p + x - 1] \in ScanRec /\ s[p + x] \in Byte
      BY <2>1, ScanType, LenProperties
    <3> QED
      BY <2>4, <3>1, ScanStepData
  <2>7. Scan(s)[p + x] = [done |-> D, cur |-> Append(E, s[p + x])]
    <3>0. \A R : R = [done |-> D, cur |-> E] => R.done = D /\ R.cur = E
      OBVIOUS
    <3>1. Scan(s)[p + x - 1].done = D /\ Scan(s)[p + x - 1].cur = E
      BY <2>5, <3>0, Zenon
    <3> QED
      BY <2>3, <2>6, <3>1
  <2>8. Append(E, s[p + x]) = C \o SubSeq(s, p + 1, p + x)
    <3>1. /\ C \in Seq(Byte) /\ s \in Seq(Byte) /\ p \in Nat
          /\ x \in Nat \ {0} /\ p + x <= Len(s)
      BY <1>b, <2>1, LenProperties
    <3>2. Append(C \o SubSeq(s, p + 1, p + x - 1), s[p + x]) = C \o SubSeq(s, p + 1, p + x)
      BY ONLY <3>1, AppendSlice
    <3> QED
      BY <3>2 DEF E
  <2>9. Run(x)
    BY <2>7, <2>8 DEF Run
  <2> QED
    BY <1>3, <2>9
<1> QED
  BY <1>4, <1>5

\* a is a prefix of b.
PrefixOf(a, b) == Len(a) <= Len(b) /\ a = SubSeq(b, 1, Len(a))

LEMMA PrefixRefl ==
  ASSUME NEW S, NEW a \in Seq(S)
  PROVE  PrefixOf(a, a)
BY SubSeqFull DEF PrefixOf

LEMMA PrefixAppend ==
  ASSUME NEW S, NEW a \in Seq(S), NEW b \in Seq(S), NEW f \in S, PrefixOf(a, b)
  PROVE  PrefixOf(a, Append(b, f))
<1>1. Len(a) \in Nat /\ Len(b) \in Nat /\ Len(a) <= Len(b)
  BY LenProperties DEF PrefixOf
<1>2. /\ Append(b, f) \in Seq(S) /\ Len(Append(b, f)) = Len(b) + 1
      /\ \A i \in 1..Len(b) : Append(b, f)[i] = b[i]
  BY AppendProperties
<1>3. /\ SubSeq(Append(b, f), 1, Len(a)) \in Seq(S)
      /\ Len(SubSeq(Append(b, f), 1, Len(a))) = Len(a)
      /\ \A i \in 1..Len(a) : SubSeq(Append(b, f), 1, Len(a))[i] = b[i]
  <2>1. \A i \in 1..Len(a) : Append(b, f)[i] \in S
    BY <1>1, <1>2
  <2> QED
    BY <1>1, <1>2, <2>1, SubSeqProperties
<1>4. \A i \in 1..Len(a) : a[i] = b[i]
  <2>1. \A i \in 1..Len(b) : b[i] \in S
    BY LenProperties
  <2>2. \A i \in 1..Len(a) : SubSeq(b, 1, Len(a))[i] = b[i]
    BY <1>1, <2>1, SubSeqProperties
  <2> QED
    BY <2>2 DEF PrefixOf
<1>5. a = SubSeq(Append(b, f), 1, Len(a))
  BY <1>3, <1>4, SeqEqual
<1> QED
  BY <1>1, <1>2, <1>5 DEF PrefixOf

\* The frames of a shorter prefix of the stream are a prefix of those of a longer one.
LEMMA ScanPrefix ==
  ASSUME NEW s \in Seq(Byte), NEW i \in 0..Len(s)
  PROVE  \A j \in i..Len(s) : PrefixOf(Scan(s)[i].done, Scan(s)[j].done)
<1> DEFINE T == {j \in i..Len(s) : ~PrefixOf(Scan(s)[i].done, Scan(s)[j].done)}
<1> SUFFICES ASSUME T # {} PROVE FALSE
  OBVIOUS
<1>0. Len(s) \in Nat /\ \A k \in 0..Len(s) : Scan(s)[k] \in ScanRec
  BY ScanType, LenProperties
<1>1. T \in SUBSET Nat
  BY <1>0
<1>2. PICK x \in T : \A y \in T : ~(y < x)
  BY <1>1, NatDescent
<1>3. CASE x = i
  <2>1. Scan(s)[i].done \in Seq(Seq(Byte))
    BY <1>0 DEF ScanRec
  <2> QED
    BY <1>2, <1>3, <2>1, PrefixRefl
<1>4. CASE x # i
  <2>1. x \in 1..Len(s) /\ x - 1 \in i..Len(s) /\ x - 1 < x
    BY <1>2, <1>4, <1>0
  <2>2. PrefixOf(Scan(s)[i].done, Scan(s)[x - 1].done)
    BY <1>2, <2>1
  <2> DEFINE P == Scan(s)[x - 1]
  <2>3. P \in ScanRec /\ Scan(s)[i] \in ScanRec /\ s[x] \in Byte
    BY <1>0, <2>1, LenProperties
  <2>4. Scan(s)[x] = ScanStep(P, s[x])
    BY <2>1, ScanDef
  <2>5. CASE s[x] # Sentinel
    <3>1. Scan(s)[x].done = P.done
      BY <2>3, <2>4, <2>5 DEF ScanStep, ScanRec
    <3> QED
      BY <1>2, <2>2, <3>1
  <2>6. CASE s[x] = Sentinel /\ ~(Len(P.cur) < N)
    <3>1. Scan(s)[x].done = P.done
      BY <2>4, <2>6 DEF ScanStep
    <3> QED
      BY <1>2, <2>2, <3>1
  <2>7. CASE s[x] = Sentinel /\ Len(P.cur) < N
    <3>1. Scan(s)[x].done = Append(P.done, P.cur \o <<Sentinel>>)
      <4>1. \A R : Len(R.cur) < N =>
              ScanStep(R, Sentinel).done = Append(R.done, R.cur \o <<Sentinel>>)
        BY DEF ScanStep
      <4> QED
        BY <2>4, <2>7, <4>1, Zenon
    <3>2. P.cur \o <<Sentinel>> \in Seq(Byte) /\ P.done \in Seq(Seq(Byte))
          /\ Scan(s)[i].done \in Seq(Seq(Byte))
      <4>1. <<Sentinel>> \in Seq(Byte)
        BY DEF Byte
      <4> QED
        BY <2>3, <4>1, ConcatProperties DEF ScanRec
    <3>3. PrefixOf(Scan(s)[i].done, Append(P.done, P.cur \o <<Sentinel>>))
      BY <2>2, <3>2, PrefixAppend
    <3> QED
      BY <1>2, <3>1, <3>3
  <2> QED
    BY <2>5, <2>6, <2>7
<1> QED
  BY <1>3, <1>4

\* The fields of a scan record.
LEMMA RecFields ==
  ASSUME NEW R, NEW d, NEW c, R = [done |-> d, cur |-> c]
  PROVE  R.done = d /\ R.cur = c
OBVIOUS

(***************************************************************************)
(* The bytes of the stream after the first F are those of the window w:    *)
(* then the scan's slice of the stream is the window's slice.              *)
(***************************************************************************)
LEMMA UnfedSlice ==
  ASSUME NEW I \in Seq(Byte), NEW F \in Nat, NEW w \in Seq(Byte),
         F + Len(w) <= Len(I), \A j \in 1..Len(w) : I[F + j] = w[j],
         NEW k \in 0..Len(w)
  PROVE  SubSeq(I, F + 1, F + k) = SubSeq(w, 1, k)
<1>1. /\ Len(I) \in Nat /\ Len(w) \in Nat
      /\ \A i \in (F + 1)..(F + k) : I[i] \in Byte
      /\ \A j \in 1..k : w[j] \in Byte
  BY LenProperties
<1>2. /\ SubSeq(I, F + 1, F + k) \in Seq(Byte)
      /\ Len(SubSeq(I, F + 1, F + k)) = k
      /\ \A i \in 1..k : SubSeq(I, F + 1, F + k)[i] = I[F + i]
  BY <1>1, SubSeqProperties
<1>3. /\ SubSeq(w, 1, k) \in Seq(Byte)
      /\ Len(SubSeq(w, 1, k)) = k
      /\ \A i \in 1..k : SubSeq(w, 1, k)[i] = w[i]
  BY <1>1, SubSeqProperties
<1>4. \A i \in 1..Len(SubSeq(I, F + 1, F + k)) :
        SubSeq(I, F + 1, F + k)[i] = SubSeq(w, 1, k)[i]
  BY <1>2, <1>3
<1> QED
  BY ONLY <1>2, <1>3, <1>4, SeqEqual, Zenon

\* A sentinel closes the payload into a frame when the payload is shorter than N.
LEMMA ScanStepFrame ==
  ASSUME NEW x \in ScanRec, Len(x.cur) < N
  PROVE  ScanStep(x, Sentinel) = [done |-> Append(x.done, x.cur \o <<Sentinel>>), cur |-> <<>>]
BY DEF ScanStep, ScanRec

(***************************************************************************)
(* What the scan does with a window fed after the first F bytes, when the  *)
(* scan stands there with frames o and payload b: a window without a       *)
(* sentinel extends the payload (feed()'s Ok(None) arm) ...                *)
(***************************************************************************)
DataHyp(I, F, w, o, b) ==
  /\ I \in Seq(Byte) /\ F \in 0..Len(I) /\ w \in Seq(Byte)
  /\ F + Len(w) <= Len(I) /\ \A j \in 1..Len(w) : I[F + j] = w[j]
  /\ \A j \in 1..Len(w) : w[j] # Sentinel
  /\ Scan(I)[F] = [done |-> o, cur |-> b]

DataRec(o, b, w) == [done |-> o, cur |-> b \o w]

\* Hypotheses and result are packed in DataHyp and DataRec, as for FrameScan.
LEMMA DataScan ==
  ASSUME NEW I, NEW F, NEW w, NEW o, NEW b, DataHyp(I, F, w, o, b)
  PROVE  Scan(I)[F + Len(w)] = DataRec(o, b, w)
<1>0. /\ I \in Seq(Byte) /\ F \in 0..Len(I) /\ w \in Seq(Byte)
      /\ F + Len(w) <= Len(I) /\ \A j \in 1..Len(w) : I[F + j] = w[j]
      /\ \A j \in 1..Len(w) : w[j] # Sentinel
      /\ Scan(I)[F] = [done |-> o, cur |-> b]
  BY DEF DataHyp
<1> USE <1>0
<1> SUFFICES Scan(I)[F + Len(w)] = [done |-> o, cur |-> b \o w]
  BY DEF DataRec
<1>1. Len(w) \in 0..(Len(I) - F) /\ \A j \in 1..Len(w) : I[F + j] # Sentinel
  BY LenProperties
<1>2. Scan(I)[F + Len(w)] = [done |-> o, cur |-> b \o SubSeq(I, F + 1, F + Len(w))]
  <2>1. Scan(I)[F].done = o /\ Scan(I)[F].cur = b
    BY RecFields
  <2> QED
    BY <1>1, <2>1, ScanRun
<1>3. SubSeq(I, F + 1, F + Len(w)) = SubSeq(w, 1, Len(w))
  BY <1>1, UnfedSlice
<1>4. SubSeq(w, 1, Len(w)) = w
  BY SubSeqFull
<1> QED
  BY <1>2, <1>3, <1>4

(***************************************************************************)
(* The situation of feed()'s first arm: the window starts at input       *)
(* position F, its first sentinel is at n + 1, and the payload stays       *)
(* shorter than N; FrameRec is the scan state the arm leads to.            *)
(***************************************************************************)
FrameHyp(I, F, w, n, o, b) ==
  /\ I \in Seq(Byte) /\ F \in 0..Len(I) /\ w \in Seq(Byte)
  /\ F + Len(w) <= Len(I) /\ \A j \in 1..Len(w) : I[F + j] = w[j]
  /\ n \in 0..(Len(w) - 1)
  /\ \A j \in 1..n : w[j] # Sentinel
  /\ w[n + 1] = Sentinel
  /\ b \in Seq(Byte) /\ Len(b) + n < N
  /\ Scan(I)[F] = [done |-> o, cur |-> b]

FrameRec(o, b, w, n) == [done |-> Append(o, b \o SubSeq(w, 1, n + 1)), cur |-> <<>>]

(***************************************************************************)
(* ... and in that situation the scan closes the frame b \o w[1..n+1]     *)
(* (feed()'s first arm) and starts an empty payload.  Hypotheses and      *)
(* result are packed in FrameHyp and FrameRec so that the lemma can be    *)
(* cited inside the invariance proof.                                      *)
(***************************************************************************)
LEMMA FrameScan ==
  ASSUME NEW I, NEW F, NEW w, NEW n, NEW o, NEW b, FrameHyp(I, F, w, n, o, b)
  PROVE  Scan(I)[F + (n + 1)] = FrameRec(o, b, w, n)
<1>0. /\ I \in Seq(Byte) /\ F \in 0..Len(I) /\ w \in Seq(Byte)
      /\ F + Len(w) <= Len(I) /\ \A j \in 1..Len(w) : I[F + j] = w[j]
      /\ n \in 0..(Len(w) - 1)
      /\ \A j \in 1..n : w[j] # Sentinel
      /\ w[n + 1] = Sentinel
      /\ b \in Seq(Byte) /\ Len(b) + n < N
      /\ Scan(I)[F] = [done |-> o, cur |-> b]
  BY DEF FrameHyp
<1> USE <1>0
<1> SUFFICES Scan(I)[F + (n + 1)] = [done |-> Append(o, b \o SubSeq(w, 1, n + 1)), cur |-> <<>>]
  BY DEF FrameRec
<1> DEFINE Cur == b \o SubSeq(I, F + 1, F + n)
<1> HIDE DEF Cur
<1>1. /\ Len(I) \in Nat /\ Len(w) \in Nat /\ n \in 0..(Len(I) - F)
      /\ \A j \in 1..n : I[F + j] # Sentinel
      /\ F + (n + 1) \in 1..Len(I) /\ I[F + (n + 1)] = Sentinel
  <2>1. Len(I) \in Nat /\ Len(w) \in Nat
    BY LenProperties
  <2>2. n + 1 \in 1..Len(w) /\ \A j \in 1..n : j \in 1..Len(w)
    BY <2>1
  <2>3. I[F + (n + 1)] = Sentinel
    BY <2>2
  <2>4. \A j \in 1..n : I[F + j] # Sentinel
    BY <2>2
  <2>5. n \in 0..(Len(I) - F) /\ F + (n + 1) \in 1..Len(I)
    BY <2>1
  <2> QED
    BY <2>1, <2>3, <2>4, <2>5
<1>2. Scan(I)[F + n] = [done |-> o, cur |-> Cur]
  <2>1. Scan(I)[F].done = o /\ Scan(I)[F].cur = b
    BY RecFields
  <2> QED
    BY <1>1, <2>1, ScanRun DEF Cur
<1>3. /\ SubSeq(I, F + 1, F + n) \in Seq(Byte)
      /\ Len(SubSeq(I, F + 1, F + n)) = n
  <2>1. \A i \in (F + 1)..(F + n) : I[i] \in Byte
    BY <1>1, LenProperties
  <2> QED
    BY <1>1, <2>1, SubSeqProperties
<1>4. Cur \in Seq(Byte) /\ Len(Cur) < N
  BY <1>3, ConcatProperties DEF Cur
<1>5. Scan(I)[F + n] \in ScanRec /\ Scan(I)[F + n].done = o /\ Scan(I)[F + n].cur = Cur
  <2>1. o \in Seq(Seq(Byte))
    <3>1. Scan(I)[F] \in ScanRec
      BY ScanType
    <3>2. Scan(I)[F].done = o
      BY RecFields
    <3> QED
      BY <3>1, <3>2 DEF ScanRec
  <2>2. \A R : R = [done |-> o, cur |-> Cur] => R.done = o /\ R.cur = Cur
    OBVIOUS
  <2>3. [done |-> o, cur |-> Cur] \in ScanRec
    BY <1>4, <2>1 DEF ScanRec
  <2> QED
    BY <1>2, <2>2, <2>3, Zenon
<1>6. Scan(I)[F + (n + 1)] = ScanStep(Scan(I)[F + n], Sentinel)
  <2>1. (F + (n + 1)) - 1 = F + n
    BY <1>1
  <2> QED
    BY <1>1, <2>1, ScanDef
<1>7. Scan(I)[F + (n + 1)] = [done |-> Append(o, Cur \o <<Sentinel>>), cur |-> <<>>]
  <2>1. ScanStep(Scan(I)[F + n], Sentinel)
          = [done |-> Append(Scan(I)[F + n].done, Scan(I)[F + n].cur \o <<Sentinel>>), cur |-> <<>>]
    BY <1>4, <1>5, ScanStepFrame
  <2> QED
    BY <1>5, <1>6, <2>1
<1>8. Cur \o <<Sentinel>> = b \o SubSeq(w, 1, n + 1)
  <2>1. Sentinel \in Byte
    BY DEF Byte
  <2>2. Cur \o <<Sentinel>> = Append(Cur, I[F + (n + 1)])
    <3>1. Append(Cur, Sentinel) = Cur \o <<Sentinel>>
      BY <1>4, <2>1, AppendIsConcat
    <3> QED
      BY <1>1, <3>1
  <2>3. Append(b \o SubSeq(I, F + 1, F + n), I[F + (n + 1)])
          = b \o SubSeq(I, F + 1, F + (n + 1))
    <3>1. F \in Nat /\ n \in Nat /\ F + (n + 1) <= Len(I)
      BY <1>1
    <3> QED
      BY ONLY <3>1, AppendNext
  <2>5. SubSeq(I, F + 1, F + (n + 1)) = SubSeq(w, 1, n + 1)
    BY <1>1, UnfedSlice
  <2> QED
    BY <2>2, <2>3, <2>5 DEF Cur
<1> QED
  BY <1>7, <1>8

-----------------------------------------------------------------------------
(***************************************************************************)
(* The driver's steps, described by what they do to the unfed bytes.       *)
(***************************************************************************)

\* Cutting the next window off the stream leaves the unfed bytes as they are.
LEMMA NextWindowUnfed ==
  ASSUME TypeOK, NEW k \in 1..MaxWindow, NextWindow(k)
  PROVE  Unfed' = Unfed
<1>1. window = <<>> /\ k \in 1..Len(stream) /\ stream \in Seq(Byte) /\ Len(stream) \in Nat
  BY LenProperties DEF NextWindow, TypeOK
<1>2. Unfed = stream
  BY <1>1, ConcatEmptySeq DEF Unfed
<1>3. /\ window' \in Seq(Byte) /\ Len(window') = k
      /\ \A i \in 1..k : window'[i] = stream[i]
      /\ stream' \in Seq(Byte) /\ Len(stream') = Len(stream) - k
      /\ \A i \in 1..Len(stream) - k : stream'[i] = stream[k + i]
  BY <1>1, SubSeqProperties DEF NextWindow
<1>4. /\ Unfed' \in Seq(Byte) /\ Len(Unfed') = Len(stream)
      /\ \A i \in 1..Len(stream) : Unfed'[i] = stream[i]
  <2>1. /\ window' \o stream' \in Seq(Byte)
        /\ Len(window' \o stream') = Len(window') + Len(stream')
        /\ \A i \in 1..Len(window') + Len(stream') : (window' \o stream')[i] =
              IF i <= Len(window') THEN window'[i] ELSE stream'[i - Len(window')]
    BY <1>3, ConcatProperties
  <2> QED
    BY <1>1, <1>3, <2>1 DEF Unfed
<1> QED
  BY <1>1, <1>2, <1>4, SeqEqual

(***************************************************************************)
(* Dropping the first m bytes of the window drops the first m unfed bytes. *)
(***************************************************************************)
LEMMA DropFacts ==
  ASSUME NEW w \in Seq(Byte), NEW s \in Seq(Byte), NEW m \in 0..Len(w)
  PROVE  /\ Len(SubSeq(w, m + 1, Len(w)) \o s) + m = Len(w \o s)
         /\ \A i \in 1..Len(SubSeq(w, m + 1, Len(w)) \o s) :
              (SubSeq(w, m + 1, Len(w)) \o s)[i] = (w \o s)[i + m]
<1> DEFINE w2 == SubSeq(w, m + 1, Len(w))
<1>1. /\ w2 \in Seq(Byte) /\ Len(w2) = Len(w) - m
      /\ \A i \in 1..Len(w2) : w2[i] = w[i + m]
  BY SubSeqProperties, LenProperties
<1> HIDE DEF w2
<1>2. /\ Len(w2 \o s) + m = Len(w \o s)
      /\ \A i \in 1..Len(w2 \o s) : (w2 \o s)[i] = (w \o s)[i + m]
  <2>1. /\ Len(w2 \o s) = Len(w2) + Len(s)
        /\ \A i \in 1..Len(w2) + Len(s) : (w2 \o s)[i] =
              IF i <= Len(w2) THEN w2[i] ELSE s[i - Len(w2)]
    BY <1>1, ConcatProperties
  <2>2. /\ Len(w \o s) = Len(w) + Len(s)
        /\ \A i \in 1..Len(w) + Len(s) : (w \o s)[i] =
              IF i <= Len(w) THEN w[i] ELSE s[i - Len(w)]
    BY ConcatProperties
  <2>3. Len(w) \in Nat /\ Len(s) \in Nat /\ Len(w2) = Len(w) - m
    BY <1>1, LenProperties
  <2>4. Len(w2 \o s) + m = Len(w \o s)
    BY <2>1, <2>2, <2>3
  <2>5. ASSUME NEW i \in 1..Len(w2 \o s) PROVE (w2 \o s)[i] = (w \o s)[i + m]
    <3>1. CASE i <= Len(w2)
      BY <1>1, <2>1, <2>2, <2>3, <2>4, <3>1
    <3>2. CASE ~(i <= Len(w2))
      BY <2>1, <2>2, <2>3, <2>4, <3>2
    <3> QED
      BY <3>1, <3>2
  <2> QED
    BY <2>4, <2>5
<1> QED
  BY <1>2 DEF w2

(***************************************************************************)
(* A window with a sentinel, fed under NoPanicInv with payloads shorter    *)
(* than N, takes feed()'s first arm: the frame b \o w[1..n+1] goes to out, *)
(* idx is reset and the bytes after the sentinel are fed next.             *)
(***************************************************************************)
LEMMA FeedFrameStep ==
  ASSUME MaxRun < N, NoPanicInv, FeedWindow, HasSentinel(window)
  PROVE  \E n \in 0..(Len(window) - 1) :
           /\ \A j \in 1..n : window[j] # Sentinel
           /\ window[n + 1] = Sentinel
           /\ Len(buf) + n <= MaxRun
           /\ buf' = <<>>
           /\ out' = Append(out, buf \o SubSeq(window, 1, n + 1))
           /\ window' = SubSeq(window, (n + 1) + 1, Len(window))
           /\ stream' = stream /\ input' = input
<1> DEFINE w == window
           b == buf
<1>0. /\ w \in Seq(Byte) /\ stream \in Seq(Byte)
      /\ b \in Seq(Data) /\ Len(b) \in Nat /\ Len(w) \in Nat
      /\ LeadOK(b, Unfed) /\ N \in Nat /\ MaxRun \in Nat
  BY LenProperties DEF FeedWindow, TypeOK, NoPanicInv
<1>1. \A i \in 1..Len(w) : Unfed[i] = w[i]
  BY <1>0, ConcatProperties DEF Unfed
<1>2. /\ FirstSentinel(w) \in 1..Len(w)
      /\ w[FirstSentinel(w)] = Sentinel
      /\ \A j \in 1..(FirstSentinel(w) - 1) : w[j] # Sentinel
  BY <1>0, SentinelMin
<1>3. PICK n \in 0..(Len(w) - 1) : n = FirstSentinel(w) - 1
  BY <1>2
<1>4. \A j \in 1..n : w[j] # Sentinel
  BY <1>2, <1>3, Zenon
<1>5. w[n + 1] = Sentinel
  BY <1>2, <1>3
<1>6. Len(b) + n <= MaxRun
  <2>1. CASE n = 0
    BY <2>1, <1>0 DEF NoPanicInv
  <2>2. CASE n # 0
    <3>1. n \in 1..Len(w) /\ n \in 1..Len(Unfed)
      <4>1. Len(Unfed) = Len(w) + Len(stream)
        BY <1>0, ConcatProperties DEF Unfed
      <4> QED
        BY <2>2, <4>1, <1>0, LenProperties
    <3>2. \A j \in 1..n : Unfed[j] # Sentinel
      BY <3>1, <1>4, <1>1
    <3> QED
      BY <3>1, <3>2, <1>0 DEF LeadOK
  <2> QED
    BY <2>1, <2>2
<1>7. Feed(b, w) = FeedResult("Frame", <<>>, b \o SubSeq(w, 1, n + 1), SubSeq(w, n + 2, Len(w)))
  BY <1>0, <1>3, <1>6 DEF FeedWindow, Feed
<1>8. /\ buf' = <<>> /\ out' = Append(out, b \o SubSeq(w, 1, n + 1))
      /\ window' = SubSeq(w, n + 2, Len(w)) /\ stream' = stream /\ input' = input
  <2>1. /\ Feed(b, w).res = "Frame" /\ Feed(b, w).buf = <<>>
        /\ Feed(b, w).frame = b \o SubSeq(w, 1, n + 1)
        /\ Feed(b, w).rest = SubSeq(w, n + 2, Len(w))
    BY <1>7 DEF FeedResult
  <2> HIDE DEF Feed
  <2> QED
    BY <2>1 DEF FeedWindow
<1>9. (n + 1) + 1 = n + 2
  OBVIOUS
<1> QED
  BY <1>3, <1>4, <1>5, <1>6, <1>8, <1>9

(***************************************************************************)
(* A window without a sentinel, fed under NoPanicInv, takes feed()'s       *)
(* Ok(None) arm: its bytes are appended to buf and nothing is left over.   *)
(***************************************************************************)
LEMMA FeedNoneStep ==
  ASSUME MaxRun < N, NoPanicInv, FeedWindow, ~HasSentinel(window)
  PROVE  /\ \A j \in 1..Len(window) : window[j] # Sentinel
         /\ Len(buf) + Len(window) <= MaxRun
         /\ buf' = buf \o window /\ out' = out /\ window' = <<>>
         /\ stream' = stream /\ input' = input
<1> DEFINE w == window
           b == buf
<1>0. /\ w \in Seq(Byte) /\ w # <<>> /\ stream \in Seq(Byte)
      /\ b \in Seq(Data) /\ Len(b) \in Nat /\ Len(w) \in Nat
      /\ LeadOK(b, Unfed) /\ N \in Nat /\ MaxRun \in Nat
  BY LenProperties DEF FeedWindow, TypeOK, NoPanicInv
<1>1. /\ Len(Unfed) = Len(w) + Len(stream)
      /\ \A i \in 1..Len(w) : Unfed[i] = w[i]
  BY <1>0, ConcatProperties DEF Unfed
<1>2. \A j \in 1..Len(w) : w[j] # Sentinel
  BY DEF HasSentinel
<1>3. Len(b) + Len(w) <= MaxRun
  <2>1. Len(w) \in 1..Len(Unfed)
    BY <1>0, <1>1, EmptySeq
  <2>2. \A j \in 1..Len(w) : Unfed[j] # Sentinel
    BY <1>1, <1>2
  <2> QED
    BY <2>1, <2>2, <1>0 DEF LeadOK
<1>4. Feed(b, w) = FeedResult("None", b \o w, <<>>, w)
  BY <1>0, <1>3 DEF Feed
<1>5. buf' = b \o w /\ out' = out /\ window' = <<>> /\ stream' = stream /\ input' = input
  <2>1. Feed(b, w).res = "None" /\ Feed(b, w).buf = b \o w
    BY <1>4 DEF FeedResult
  <2> HIDE DEF Feed
  <2> QED
    BY <2>1 DEF FeedWindow
<1> QED
  BY <1>2, <1>3, <1>5

(***************************************************************************)
(* A step that feeds the next m unfed bytes (AdvanceHyp) moves Fed forward *)
(* by m and keeps the unfed bytes the rest of the stream.                  *)
(***************************************************************************)
AdvanceHyp(m) ==
  /\ ChunkInv /\ input' = input /\ m \in Nat /\ Unfed' \in Seq(Byte)
  /\ Len(Unfed') + m = Len(Unfed)
  /\ \A i \in 1..Len(Unfed') : Unfed'[i] = Unfed[i + m]

LEMMA AdvanceFed ==
  ASSUME NEW m, AdvanceHyp(m)
  PROVE  /\ Len(Unfed') <= Len(input')
         /\ Fed' = Fed + m
         /\ \A i \in 1..Len(Unfed') : Unfed'[i] = input'[Fed' + i]
<1>0. /\ ChunkInv /\ input' = input /\ m \in Nat /\ Unfed' \in Seq(Byte)
      /\ Len(Unfed') + m = Len(Unfed)
      /\ \A i \in 1..Len(Unfed') : Unfed'[i] = Unfed[i + m]
  BY DEF AdvanceHyp
<1>1. input \in Seq(Byte) /\ Unfed \in Seq(Byte)
  BY <1>0, ConcatProperties DEF ChunkInv, NoPanicInv, TypeOK, Unfed
<1>2. /\ Len(Unfed) <= Len(input)
      /\ \A i \in 1..Len(Unfed) : Unfed[i] = input[(Len(input) - Len(Unfed)) + i]
  BY <1>0 DEF ChunkInv, Fed
<1>3. /\ Len(Unfed') <= Len(input)
      /\ Len(input) - Len(Unfed') = (Len(input) - Len(Unfed)) + m
      /\ \A i \in 1..Len(Unfed') : Unfed'[i] = input[(Len(input) - Len(Unfed')) + i]
  <2>0. PICK U2 : U2 = Unfed'
    OBVIOUS
  <2>1. /\ m \in Nat /\ U2 \in Seq(Byte) /\ Len(U2) + m = Len(Unfed)
        /\ \A i \in 1..Len(U2) : U2[i] = Unfed[i + m]
    BY <1>0, <2>0
  <2>2. /\ Len(U2) <= Len(input)
        /\ Len(input) - Len(U2) = (Len(input) - Len(Unfed)) + m
        /\ \A i \in 1..Len(U2) : U2[i] = input[(Len(input) - Len(U2)) + i]
    <3>1. Len(input) \in Nat /\ Len(Unfed) \in Nat /\ Len(U2) \in Nat
      BY <1>1, <2>1, LenProperties
    <3>2. \A i \in 1..Len(U2) :
            /\ i + m \in 1..Len(Unfed)
            /\ (Len(input) - Len(Unfed)) + (i + m) = (Len(input) - Len(U2)) + i
      BY ONLY <2>1, <3>1
    <3>3. ASSUME NEW i \in 1..Len(U2) PROVE U2[i] = input[(Len(input) - Len(U2)) + i]
      <4>1. U2[i] = Unfed[i + m] /\ i + m \in 1..Len(Unfed)
        BY <2>1, <3>2
      <4>2. Unfed[i + m] = input[(Len(input) - Len(Unfed)) + (i + m)]
        BY <1>2, <4>1
      <4> QED
        BY <3>2, <4>1, <4>2
    <3>4. Len(U2) <= Len(input) /\ Len(input) - Len(U2) = (Len(input) - Len(Unfed)) + m
      BY <1>2, <2>1, <3>1
    <3> QED
      BY <3>3, <3>4
  <2> QED
    BY <2>0, <2>2
<1> QED
  BY <1>0, <1>3 DEF Fed

(***************************************************************************)
(* Where the driver stands in the stream: the unfed bytes start with the   *)
(* window, at position Fed + 1 of the stream, and the scan after Fed bytes *)
(* holds out and buf.                                                      *)
(***************************************************************************)
LEMMA ChunkFacts ==
  ASSUME ChunkInv
  PROVE  /\ input \in Seq(Byte) /\ window \in Seq(Byte) /\ stream \in Seq(Byte)
         /\ buf \in Seq(Byte)
         /\ Fed \in 0..Len(input)
         /\ Fed + Len(window) <= Len(input)
         /\ \A j \in 1..Len(window) : input[Fed + j] = window[j]
         /\ Scan(input)[Fed] = [done |-> out, cur |-> buf]
<1>1. /\ input \in Seq(Byte) /\ window \in Seq(Byte) /\ stream \in Seq(Byte)
      /\ buf \in Seq(Data)
  BY DEF ChunkInv, NoPanicInv, TypeOK
<1>2. buf \in Seq(Byte)
  BY <1>1, SeqMonotonic DEF Byte
<1>3. /\ Unfed \in Seq(Byte) /\ Len(Unfed) = Len(window) + Len(stream)
      /\ \A j \in 1..Len(window) : Unfed[j] = window[j]
  BY <1>1, ConcatProperties DEF Unfed
<1>4. Len(input) \in Nat /\ Len(window) \in Nat /\ Len(stream) \in Nat
  BY <1>1, LenProperties
<1>5. Fed \in 0..Len(input) /\ Fed + Len(window) <= Len(input)
  BY <1>3, <1>4 DEF ChunkInv, Fed
<1>6. \A j \in 1..Len(window) : input[Fed + j] = window[j]
  <2> SUFFICES ASSUME NEW j \in 1..Len(window) PROVE input[Fed + j] = window[j]
    OBVIOUS
  <2>1. j \in 1..Len(Unfed)
    BY <1>3, <1>4
  <2> QED
    BY <1>3, <2>1 DEF ChunkInv
<1>7. Scan(input)[Fed] = [done |-> out, cur |-> buf]
  <2>1. Scan(input)[Fed] \in ScanRec
    BY <1>1, <1>5, ScanType
  <2>2. out = Scan(input)[Fed].done /\ buf = Scan(input)[Fed].cur
    BY DEF ChunkInv
  <2> HIDE DEF Fed
  <2> QED
    BY <2>1, <2>2 DEF ScanRec
<1> QED
  BY <1>1, <1>2, <1>5, <1>6, <1>7

\* The driver starts where the scan starts: nothing fed, nothing found.
LEMMA InitChunkInv == Init => ChunkInv
<1> SUFFICES ASSUME Init PROVE ChunkInv
  OBVIOUS
<1>1. NoPanicInv
  BY InitNoPanicInv
<1>2. Unfed = input /\ input \in Seq(Byte) /\ Len(input) \in Nat
  BY <1>1, ConcatEmptySeq, LenProperties DEF Init, NoPanicInv, TypeOK, Unfed
<1>3. Fed = 0
  BY <1>2 DEF Fed
<1>4. Scan(input)[0] = ScanInit
  BY <1>2, ScanDef
<1>5. out = Scan(input)[Fed].done /\ buf = Scan(input)[Fed].cur
  BY <1>3, <1>4 DEF Init, ScanInit
<1>6. \A i \in 1..Len(Unfed) : Unfed[i] = input[Fed + i]
  BY <1>2, <1>3
<1> QED
  BY <1>1, <1>2, <1>5, <1>6 DEF ChunkInv

(***************************************************************************)
(* Each step keeps ChunkInv when every frame is shorter than the buffer:   *)
(* a window with a sentinel closes the frame the scan closes at the same   *)
(* byte, a window without one extends the payload as the scan does, and   *)
(* cutting a window off the stream feeds nothing.                          *)
(***************************************************************************)
LEMMA StepChunkInv ==
  ASSUME MaxRun < N, ChunkInv, [Next]_vars
  PROVE  ChunkInv'
<1>0. NoPanicInv /\ NoPanicInv'
  BY StepNoPanicInv DEF ChunkInv
<1>a. /\ input \in Seq(Byte) /\ window \in Seq(Byte) /\ stream \in Seq(Byte)
      /\ buf \in Seq(Byte)
      /\ Fed \in 0..Len(input)
      /\ Fed + Len(window) <= Len(input)
      /\ \A j \in 1..Len(window) : input[Fed + j] = window[j]
      /\ Scan(input)[Fed] = [done |-> out, cur |-> buf]
  BY ChunkFacts
<1>1. ASSUME NEW k \in 1..MaxWindow, NextWindow(k) PROVE ChunkInv'
  <2>1. Unfed' = Unfed
    BY <1>0, <1>1, NextWindowUnfed DEF NoPanicInv
  <2>2. input' = input /\ out' = out /\ buf' = buf
    BY <1>1 DEF NextWindow
  <2>3. Fed' = Fed
    BY <2>1, <2>2 DEF Fed
  <2> QED
    BY <1>0, <2>1, <2>2, <2>3 DEF ChunkInv
<1>2. CASE FeedWindow
  <2> DEFINE w == window
  <2>1. CASE HasSentinel(w)
    <3>1. PICK n \in 0..(Len(w) - 1) :
            /\ \A j \in 1..n : w[j] # Sentinel
            /\ w[n + 1] = Sentinel
            /\ Len(buf) + n <= MaxRun
            /\ buf' = <<>>
            /\ out' = Append(out, buf \o SubSeq(w, 1, n + 1))
            /\ window' = SubSeq(w, (n + 1) + 1, Len(w))
            /\ stream' = stream /\ input' = input
      BY <1>0, <1>2, <2>1, FeedFrameStep
    <3>2. Scan(input)[Fed + (n + 1)] = [done |-> out', cur |-> buf']
      <4>1. Len(buf) + n < N
        BY <1>a, <3>1, LenProperties
      <4>2. Scan(input)[Fed + (n + 1)]
              = [done |-> Append(out, buf \o SubSeq(w, 1, n + 1)), cur |-> <<>>]
        <5>1. PICK F : F = Fed
          OBVIOUS
        <5>2. FrameHyp(input, F, w, n, out, buf)
          <6>1. /\ input \in Seq(Byte) /\ w \in Seq(Byte) /\ buf \in Seq(Byte)
                /\ F \in 0..Len(input) /\ F + Len(w) <= Len(input)
                /\ \A j \in 1..Len(w) : input[F + j] = w[j]
                /\ Scan(input)[F] = [done |-> out, cur |-> buf]
                /\ n \in 0..(Len(w) - 1)
                /\ \A j \in 1..n : w[j] # Sentinel
                /\ w[n + 1] = Sentinel
                /\ Len(buf) + n < N
            BY <1>a, <3>1, <4>1, <5>1
          <6> QED
            BY <6>1 DEF FrameHyp
        <5>3. Scan(input)[F + (n + 1)] = FrameRec(out, buf, w, n)
          BY <5>2, FrameScan
        <5> QED
          BY <5>1, <5>3 DEF FrameRec
      <4> QED
        BY <3>1, <4>2
    <3>3. /\ Len(Unfed') + (n + 1) = Len(Unfed)
          /\ \A i \in 1..Len(Unfed') : Unfed'[i] = Unfed[i + (n + 1)]
          /\ Unfed' \in Seq(Byte)
      <4>1. Unfed' = SubSeq(w, (n + 1) + 1, Len(w)) \o stream
        BY <3>1 DEF Unfed
      <4>2. n + 1 \in 0..Len(w)
        BY <1>a, LenProperties
      <4>3. SubSeq(w, (n + 1) + 1, Len(w)) \o stream \in Seq(Byte)
        BY <1>a, <4>2, SuffixFacts
      <4>4. /\ Len(SubSeq(w, (n + 1) + 1, Len(w)) \o stream) + (n + 1) = Len(w \o stream)
            /\ \A i \in 1..Len(SubSeq(w, (n + 1) + 1, Len(w)) \o stream) :
                 (SubSeq(w, (n + 1) + 1, Len(w)) \o stream)[i] = (w \o stream)[i + (n + 1)]
        BY <1>a, <4>2, DropFacts
      <4> QED
        BY <4>1, <4>3, <4>4 DEF Unfed
    <3>4. /\ Len(Unfed') <= Len(input')
          /\ Fed' = Fed + (n + 1)
          /\ \A i \in 1..Len(Unfed') : Unfed'[i] = input'[Fed' + i]
      <4>1. n + 1 \in Nat /\ input' = input
        BY <3>1
      <4>2. AdvanceHyp(n + 1)
        BY ONLY ChunkInv, <3>3, <4>1 DEF AdvanceHyp
      <4> QED
        BY ONLY <4>2, AdvanceFed
    <3>5. out' = Scan(input')[Fed'].done /\ buf' = Scan(input')[Fed'].cur
      <4>1. Scan(input')[Fed'] = [done |-> out', cur |-> buf']
        BY <3>1, <3>2, <3>4
      <4>2. \A R : R = [done |-> out', cur |-> buf'] => R.done = out' /\ R.cur = buf'
        OBVIOUS
      <4> QED
        BY ONLY <4>1, <4>2, Zenon
    <3> QED
      BY <1>0, <3>4, <3>5 DEF ChunkInv
  <2>2. CASE ~HasSentinel(w)
    <3>1. /\ \A j \in 1..Len(w) : w[j] # Sentinel
          /\ buf' = buf \o w /\ out' = out /\ window' = <<>>
          /\ stream' = stream /\ input' = input
      BY <1>0, <1>2, <2>2, FeedNoneStep
    <3>2. Scan(input)[Fed + Len(w)] = [done |-> out', cur |-> buf']
      <4>1. Scan(input)[Fed + Len(w)] = [done |-> out, cur |-> buf \o w]
        <5>1. PICK F : F = Fed
          OBVIOUS
        <5>2. /\ input \in Seq(Byte) /\ w \in Seq(Byte)
              /\ F \in 0..Len(input) /\ F + Len(w) <= Len(input)
              /\ \A j \in 1..Len(w) : input[F + j] = w[j]
              /\ \A j \in 1..Len(w) : w[j] # Sentinel
              /\ Scan(input)[F] = [done |-> out, cur |-> buf]
          BY <1>a, <3>1, <5>1
        <5>3. Scan(input)[F + Len(w)] = DataRec(out, buf, w)
          <6>1. DataHyp(input, F, w, out, buf)
            BY <5>2 DEF DataHyp
          <6> QED
            BY <6>1, DataScan
        <5> QED
          BY <5>1, <5>3 DEF DataRec
      <4> QED
        BY <3>1, <4>1
    <3>3. /\ Len(Unfed') + Len(w) = Len(Unfed)
          /\ \A i \in 1..Len(Unfed') : Unfed'[i] = Unfed[i + Len(w)]
          /\ Unfed' \in Seq(Byte) /\ Len(w) \in Nat
      <4>1. SubSeq(w, Len(w) + 1, Len(w)) = <<>>
        BY <1>a, LenProperties, SubSeqEmpty
      <4>2. Unfed' = SubSeq(w, Len(w) + 1, Len(w)) \o stream
        BY <3>1, <4>1, <1>a, ConcatEmptySeq DEF Unfed
      <4>3. Len(w) \in 0..Len(w)
        BY <1>a, LenProperties
      <4>4. SubSeq(w, Len(w) + 1, Len(w)) \o stream \in Seq(Byte)
        BY <1>a, <4>3, SuffixFacts
      <4>5. /\ Len(SubSeq(w, Len(w) + 1, Len(w)) \o stream) + Len(w) = Len(w \o stream)
            /\ \A i \in 1..Len(SubSeq(w, Len(w) + 1, Len(w)) \o stream) :
                 (SubSeq(w, Len(w) + 1, Len(w)) \o stream)[i] = (w \o stream)[i + Len(w)]
        BY <1>a, <4>3, DropFacts
      <4> QED
        BY <4>2, <4>3, <4>4, <4>5 DEF Unfed
    <3>4. /\ Len(Unfed') <= Len(input')
          /\ Fed' = Fed + Len(w)
          /\ \A i \in 1..Len(Unfed') : Unfed'[i] = input'[Fed' + i]
      <4>1. input' = input /\ Len(w) \in Nat
        BY <1>a, <3>1, LenProperties
      <4>2. AdvanceHyp(Len(w))
        BY ONLY ChunkInv, <3>3, <4>1 DEF AdvanceHyp
      <4> QED
        BY ONLY <4>2, AdvanceFed
    <3>5. out' = Scan(input')[Fed'].done /\ buf' = Scan(input')[Fed'].cur
      <4>1. Scan(input')[Fed'] = [done |-> out', cur |-> buf']
        BY <3>1, <3>2, <3>4
      <4>2. \A R : R = [done |-> out', cur |-> buf'] => R.done = out' /\ R.cur = buf'
        OBVIOUS
      <4> QED
        BY ONLY <4>1, <4>2, Zenon
    <3> QED
      BY <1>0, <3>4, <3>5 DEF ChunkInv
  <2> QED
    BY <2>1, <2>2
<1>3. CASE UNCHANGED vars
  BY <1>0, <1>3 DEF vars, ChunkInv, Fed, Unfed
<1> QED
  BY <1>1, <1>2, <1>3 DEF Next

(***************************************************************************)
(* Chunk invariance, for every buffer size N and every stream of frames    *)
(* whose payloads are shorter than N: however the driver cuts the stream   *)
(* into windows, the frames feed() has returned are a prefix of those one  *)
(* whole-stream feed() returns, and all of them once the stream is         *)
(* consumed.  feed()'s bookkeeping across calls (appending a sentinel-free *)
(* window in the Ok(None) arm, resetting idx after a frame) loses, adds   *)
(* and reorders no frame.                                                  *)
(***************************************************************************)
THEOREM ChunkInvariant ==
  ASSUME MaxRun < N
  PROVE  Spec => []ChunkInvariance
<1>1. Init => ChunkInv
  BY InitChunkInv
<1>2. ChunkInv /\ [Next]_vars => ChunkInv'
  BY StepChunkInv
<1>3. ChunkInv => ChunkInvariance
  <2> SUFFICES ASSUME ChunkInv PROVE ChunkInvariance
    OBVIOUS
  <2>1. input \in Seq(Byte) /\ Fed \in 0..Len(input)
    BY ChunkFacts
  <2>2. PrefixOf(out, Expected)
    <3>1. Len(input) \in Fed..Len(input)
      BY <2>1
    <3>2. PrefixOf(Scan(input)[Fed].done, Scan(input)[Len(input)].done)
      BY <2>1, <3>1, ScanPrefix
    <3> QED
      BY <3>2 DEF ChunkInv, Expected
  <2>3. Done => out = Expected
    <3> SUFFICES ASSUME Done PROVE out = Expected
      OBVIOUS
    <3>1. Unfed = <<>>
      BY ConcatEmptySeq DEF Done, Unfed
    <3>2. Fed = Len(input)
      BY <2>1, <3>1 DEF Fed
    <3> QED
      BY <3>2 DEF ChunkInv, Expected
  <2> QED
    BY <2>2, <2>3 DEF ChunkInvariance, PrefixOf
<1> QED
  BY <1>1, <1>2, <1>3, PTL DEF Spec

=============================================================================
