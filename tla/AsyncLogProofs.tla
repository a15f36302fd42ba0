---------------------------- MODULE AsyncLogProofs ----------------------------
(***************************************************************************)
(* The assertions in the backend's loop hold, and no line is lost, for     *)
(* every buffer size, every set of line lengths and every batch limit of   *)
(* at least two.                                                           *)
(***************************************************************************)
EXTENDS AsyncLog, SequenceTheorems, TLAPS

(* What the buffers are, as far as the assertions depend on it.            *)
BuffersOK ==
    /\ current \in Seq(Buffer) /\ Len(current) = 1
    /\ next \in Seq(Buffer)
    /\ vec \in Seq(Buffer)
    /\ toWrite \in Seq(Buffer)

(* The spare buffers at each place of the loop.  A second buffer has been  *)
(* given away only if the batch has two.                                   *)
SparesOK ==
    /\ pc \in {"top", "wait"} => TopAssertions
    /\ pc \in {"cut", "write", "recycle"} =>
           /\ new1 = <<>>
           /\ Len(toWrite) >= 1
           /\ new2 = <<EmptyBuffer>> \/ (new2 = <<>> /\ Len(toWrite) >= 2)
    /\ pc = "start" => toWrite = <<>>

(* append() takes m_nextBuffer only after it has queued a full buffer, and *)
(* the swap that empties the queue refills m_nextBuffer.                   *)
NextOK == next = <<>> => vec # <<>>

AssertInv == BuffersOK /\ SparesOK /\ NextOK /\ pc \in PCs \ {"abort"}

(* A pointer that holds a buffer, and a vector with a pointer moved in.    *)
LEMMA OneElement ==
    ASSUME NEW S, NEW x \in S
    PROVE  <<x>> \in Seq(S) /\ Len(<<x>>) = 1 /\ <<x>> # <<>>
OBVIOUS

(* A buffer with a line put into it is a buffer.                           *)
LEMMA PutIsBuffer ==
    ASSUME NEW b \in Buffer, NEW line \in Lines, NEW len \in LineLens
    PROVE  Put(b, line, len) \in Buffer
<1>1. len \in Nat /\ len > 0
  BY AsyncLogAssumption
<1>2. b.used \in 0 .. BufferSize /\ b.lines \in Seq(Lines)
  BY DEF Buffer
<1>3. CASE BufferSize - b.used > len
  <2>1. b.used + len \in 0 .. BufferSize
    BY <1>1, <1>2, <1>3, AsyncLogAssumption
  <2>2. Append(b.lines, line) \in Seq(Lines)
    BY <1>2, AppendProperties
  <2> QED
    BY <1>3, <2>1, <2>2 DEF Put, Buffer
<1>4. CASE ~(BufferSize - b.used > len)
  BY <1>4 DEF Put
<1> QED
  BY <1>3, <1>4

(* An empty buffer is a buffer.                                            *)
LEMMA EmptyIsBuffer == EmptyBuffer \in Buffer
<1>1. <<>> \in Seq(Lines)
  BY EmptySeq
<1>2. 0 \in 0 .. BufferSize
  BY AsyncLogAssumption
<1> QED
  BY <1>1, <1>2 DEF EmptyBuffer, Buffer

(* The swap under the lock yields a batch with a second buffer whenever it *)
(* gives the second spare away.                                            *)
LEMMA SwapKeepsAsserts ==
    ASSUME AssertInv, pc \in {"top", "wait"}, SwapBuffers, pc' = "cut",
           TopAssertions
    PROVE  AssertInv'
<1>1. <<EmptyBuffer>> \in Seq(Buffer) /\ Len(<<EmptyBuffer>>) = 1
  BY EmptyIsBuffer, OneElement
<1>2. vec \in Seq(Buffer) /\ current \in Seq(Buffer) /\ Len(current) = 1
  BY DEF AssertInv, BuffersOK
<1>3. vec \o current \in Seq(Buffer) /\ Len(vec \o current) = Len(vec) + 1
  <2>1. vec \o current \in Seq(Buffer) /\ Len(vec \o current) = Len(vec) + Len(current)
    BY <1>2, ConcatProperties
  <2> QED
    BY <1>2, <2>1
<1>4. BuffersOK'
  BY <1>1, <1>3 DEF AssertInv, BuffersOK, SwapBuffers, TopAssertions, Null
<1>5. next = <<>> => Len(vec) >= 1
  BY <1>2 DEF AssertInv, NextOK
<1>6. Len(toWrite') >= 1 /\ (next = <<>> => Len(toWrite') >= 2)
  BY <1>2, <1>3, <1>5 DEF SwapBuffers
<1>7. SparesOK'
  BY <1>6 DEF SparesOK, SwapBuffers, TopAssertions, Null
<1>8. NextOK'
  BY DEF NextOK, SwapBuffers, TopAssertions, Null
<1> QED
  BY <1>4, <1>7, <1>8 DEF AssertInv, PCs

(* Every step of the frontends and of the backend keeps AssertInv.         *)
LEMMA AssertStep == AssertInv /\ numLines \in 0 .. MaxLines /\ [Next]_vars => AssertInv'
<1> SUFFICES ASSUME AssertInv, numLines \in 0 .. MaxLines, [Next]_vars
             PROVE  AssertInv'
  OBVIOUS
<1> USE AsyncLogAssumption
<1>1. ASSUME NEW len \in LineLens, AppendLine(len) PROVE AssertInv'
  <2>1. numLines + 1 \in Lines
    BY <1>1 DEF AppendLine, Lines
  <2>2. current[1] \in Buffer /\ (next # <<>> => next[1] \in Buffer)
    BY DEF AssertInv, BuffersOK
  <2>3. /\ Put(current[1], numLines + 1, len) \in Buffer
        /\ Put(EmptyBuffer, numLines + 1, len) \in Buffer
        /\ next # <<>> => Put(next[1], numLines + 1, len) \in Buffer
    BY <2>1, <2>2, PutIsBuffer, EmptyIsBuffer
  <2>4. current' \in Seq(Buffer) /\ Len(current') = 1
    <3>1. PICK b \in Buffer : current' = <<b>>
      BY <1>1, <2>3 DEF AppendLine, Null
    <3> QED
      BY <3>1, OneElement
  <2>5. /\ vec' \in Seq(Buffer)
        /\ next' = <<>> => vec' # <<>>
    <3>1. /\ vec \in Seq(Buffer) /\ current \in Seq(Buffer) /\ Len(current) = 1
          /\ next = <<>> => vec # <<>>
      BY DEF AssertInv, BuffersOK, NextOK
    <3>2. vec \o current \in Seq(Buffer) /\ Len(vec \o current) = Len(vec) + 1
      <4>1. /\ vec \o current \in Seq(Buffer)
            /\ Len(vec \o current) = Len(vec) + Len(current)
        BY <3>1, ConcatProperties, Zenon
      <4> QED
        BY <3>1, <4>1, Zenon
    <3>3. vec \o current # <<>>
      BY <3>1, <3>2
    <3> QED
      BY <1>1, <3>1, <3>2, <3>3 DEF AppendLine
  <2>6. next' \in Seq(Buffer)
    BY <1>1, EmptySeq DEF AppendLine, AssertInv, BuffersOK
  <2> QED
    BY <1>1, <2>4, <2>5, <2>6
       DEF AppendLine, backend, AssertInv, BuffersOK, SparesOK, NextOK, TopAssertions, Null
<1>2. CASE Stop
  BY <1>2 DEF Stop, backend, AssertInv, BuffersOK, SparesOK, NextOK, TopAssertions, Null
<1>3. CASE BackendStart
  BY <1>3 DEF BackendStart, shared, AssertInv, BuffersOK, SparesOK, NextOK,
              TopAssertions, Null, PCs
<1>4. CASE BackendTop
  <2>1. TopAssertions
    BY <1>4 DEF BackendTop, AssertInv, SparesOK
  <2>2. CASE vec = <<>>
    BY <1>4, <2>1, <2>2 DEF BackendTop, shared, AssertInv, BuffersOK, SparesOK,
              NextOK, TopAssertions, Null, PCs
  <2>3. CASE vec # <<>>
    BY <1>4, <2>1, <2>3, SwapKeepsAsserts DEF BackendTop
  <2> QED
    BY <2>2, <2>3
<1>5. CASE BackendWake
  BY <1>5, SwapKeepsAsserts DEF BackendWake, AssertInv, SparesOK
<1>6. CASE BackendCut
  <2>1. toWrite \in Seq(Buffer) /\ toWrite # <<>>
    BY <1>6 DEF BackendCut, AssertInv, BuffersOK, SparesOK
  <2>0. CASE pc' = "stuck"
    <3>1. UNCHANGED <<current, next, vec, toWrite>>
      BY <1>6, <2>0 DEF BackendCut, shared
    <3> QED
      BY <2>0, <3>1 DEF AssertInv, BuffersOK, SparesOK, NextOK, PCs
  <2> SUFFICES ASSUME pc' # "stuck" PROVE AssertInv'
    BY <2>0
  <2>2. toWrite' = CutBatch(toWrite) /\ pc' = "write"
    BY <1>6, <2>1 DEF BackendCut, Null
  <2>3. /\ toWrite' \in Seq(Buffer)
        /\ Len(toWrite') >= 1
        /\ Len(toWrite) >= 2 => Len(toWrite') >= 2
    <3>1. CASE Len(toWrite) > MaxBuffers
      <4>1. Len(toWrite) >= 2 /\ toWrite' = SubSeq(toWrite, 1, 2)
        BY <2>1, <2>2, <3>1 DEF CutBatch
      <4>2. SubSeq(toWrite, 1, 2) \in Seq(Buffer) /\ Len(SubSeq(toWrite, 1, 2)) = 2
        BY <2>1, <4>1, SubSeqProperties
      <4> QED
        BY <4>1, <4>2
    <3>2. CASE ~(Len(toWrite) > MaxBuffers)
      BY <1>6, <2>1, <2>2, <3>2 DEF CutBatch, BackendCut, AssertInv, SparesOK
    <3> QED
      BY <3>1, <3>2
  <2> QED
    BY <1>6, <2>2, <2>3 DEF BackendCut, shared, AssertInv, BuffersOK, SparesOK,
              NextOK, PCs
<1>7. CASE BackendWrite
  BY <1>7 DEF BackendWrite, shared, AssertInv, BuffersOK, SparesOK, NextOK, PCs
<1>8. CASE BackendRecycle
  <2>1. Len(toWrite) \in Nat
    BY DEF AssertInv, BuffersOK
  <2>2. /\ new1 = <<>> /\ Len(toWrite) >= 1
        /\ new2 = <<EmptyBuffer>> \/ (new2 = <<>> /\ Len(toWrite) >= 2)
    BY <1>8 DEF BackendRecycle, AssertInv, SparesOK
  <2>3. /\ pc' = "top"
        /\ new1' = <<EmptyBuffer>>
        /\ new2' = <<EmptyBuffer>>
        /\ toWrite' = <<>>
    BY <1>8, <2>1, <2>2 DEF BackendRecycle, Null
  <2>4. <<>> \in Seq(Buffer)
    BY EmptySeq
  <2> QED
    BY <1>8, <2>3, <2>4 DEF BackendRecycle, shared, AssertInv, BuffersOK, SparesOK,
              NextOK, TopAssertions, Null, PCs
<1>9. CASE UNCHANGED vars
  BY <1>9 DEF vars, AssertInv, BuffersOK, SparesOK, NextOK, TopAssertions, Null
<1> QED
  BY <1>1, <1>2, <1>3, <1>4, <1>5, <1>6, <1>7, <1>8, <1>9 DEF Next, BackendStep

(* The number of appended lines stays within its bound.                    *)
LEMMA LinesBounded == Spec => [](numLines \in 0 .. MaxLines)
<1>1. Init => numLines \in 0 .. MaxLines
  BY AsyncLogAssumption DEF Init
<1>2. numLines \in 0 .. MaxLines /\ [Next]_vars => (numLines \in 0 .. MaxLines)'
  BY AsyncLogAssumption
     DEF Next, vars, AppendLine, Stop, BackendStep, BackendStart, BackendTop,
         BackendWake, SwapBuffers, BackendCut, BackendWrite, BackendRecycle, shared
<1> QED
  BY <1>1, <1>2, PTL DEF Spec

(* No assertion inside the backend's loop fails, whatever threads append   *)
(* and however the backend is scheduled against them.                      *)
THEOREM BackendAssertionsHold == Spec => []LoopAssertionsHold
<1>1. Init => AssertInv
  <2>1. <<EmptyBuffer>> \in Seq(Buffer) /\ Len(<<EmptyBuffer>>) = 1
    BY EmptyIsBuffer
  <2>2. <<>> \in Seq(Buffer)
    BY EmptySeq
  <2> QED
    BY <2>1, <2>2 DEF Init, AssertInv, BuffersOK, SparesOK, NextOK, PCs
<1>2. AssertInv => LoopAssertionsHold
  BY DEF AssertInv, LoopAssertionsHold
<1> QED
  BY <1>1, <1>2, LinesBounded, AssertStep, PTL DEF Spec

-------------------------------------------------------------------------------
(* No line is lost.  What the lines of two vectors one after the other are *)
(* follows from the lines of each, so every step of the program is a       *)
(* matter of sets of lines.                                                *)

(* Every line of P comes before every line of Q.                           *)
Before(P, Q) == \A x \in LinesOf(P, 1), y \in LinesOf(Q, 1) : x < y

(* A line of a vector is a line of one of its buffers.                     *)
LEMMA InLinesOf ==
    ASSUME NEW bufs, NEW from, NEW x
    PROVE  x \in LinesOf(bufs, from) <=> \E k \in from .. Len(bufs) : x \in LinesIn(bufs[k])
BY DEF LinesOf

(* A pointer that is not null.                                             *)
LEMMA OnePtr ==
    ASSUME NEW ptr \in Seq(Buffer), Len(ptr) = 1
    PROVE  ptr[1] \in Buffer /\ ptr = <<ptr[1]>> /\ ptr # <<>>
<1>1. ptr[1] \in Buffer
  OBVIOUS
<1>2. <<ptr[1]>> \in Seq(Buffer) /\ Len(<<ptr[1]>>) = 1 /\ <<ptr[1]>>[1] = ptr[1]
  BY <1>1
<1>3. \A i \in 1 .. Len(ptr) : i = 1
  OBVIOUS
<1>4. ptr = <<ptr[1]>>
  BY <1>2, <1>3, SeqEqual
<1>5. ptr # <<>>
  BY EmptySeq
<1> QED
  BY <1>1, <1>4, <1>5

(* Vectors of buffers may be regrouped.                                    *)
LEMMA Regroup ==
    ASSUME NEW P \in Seq(Buffer), NEW Q \in Seq(Buffer), NEW T \in Seq(Buffer)
    PROVE  (P \o Q) \o T = P \o (Q \o T)
BY ConcatAssociative

Grouped(P, Q, T) == (P \o Q) \o T = P \o (Q \o T)

LEMMA RegroupFour ==
    ASSUME NEW P \in Seq(Buffer), NEW Q \in Seq(Buffer), NEW T \in Seq(Buffer),
           NEW U \in Seq(Buffer)
    PROVE  P \o (Q \o (T \o U)) = (P \o (Q \o T)) \o U
<1> DEFINE A == Q \o T
<1>1. \A X, Y, Z \in Seq(Buffer) : Grouped(X, Y, Z)
  BY Regroup DEF Grouped
<1>2. A \in Seq(Buffer)
  OBVIOUS
<1> HIDE DEF A
<1>3. Grouped(Q, T, U) /\ Grouped(P, A, U)
  BY <1>1, <1>2, Zenon
<1>4. A \o U = Q \o (T \o U) /\ (P \o A) \o U = P \o (A \o U)
  BY <1>3, Zenon DEF Grouped, A
<1> QED
  BY <1>4, Zenon DEF A

(* The lines of a buffer, and of a vector, are lines.                      *)
LEMMA LinesAreLines ==
    ASSUME NEW P \in Seq(Buffer)
    PROVE  LinesOf(P, 1) \subseteq Lines
<1>1. ASSUME NEW b \in Buffer PROVE LinesIn(b) \subseteq Lines
  BY DEF Buffer, LinesIn
<1>2. \A k \in 1 .. Len(P) : P[k] \in Buffer
  OBVIOUS
<1> QED
  BY <1>1, <1>2, InLinesOf

(* Where the elements of a concatenation come from.                        *)
LEMMA ConcatElements ==
    ASSUME NEW S, NEW P \in Seq(S), NEW Q \in Seq(S)
    PROVE  /\ P \o Q \in Seq(S)
           /\ Len(P) \in Nat /\ Len(Q) \in Nat
           /\ Len(P \o Q) = Len(P) + Len(Q)
           /\ \A k \in 1 .. Len(P) : (P \o Q)[k] = P[k]
           /\ \A k \in 1 .. Len(Q) : (P \o Q)[Len(P) + k] = Q[k]
           /\ \A k \in 1 .. Len(P \o Q) : k > Len(P) =>
                  k - Len(P) \in 1 .. Len(Q) /\ (P \o Q)[k] = Q[k - Len(P)]
<1>1. P \o Q \in Seq(S) /\ Len(P \o Q) = Len(P) + Len(Q)
  BY ConcatProperties
<1>2. Len(P) \in Nat /\ Len(Q) \in Nat
  OBVIOUS
<1>3. \A k \in 1 .. Len(P) + Len(Q) :
          (P \o Q)[k] = IF k <= Len(P) THEN P[k] ELSE Q[k - Len(P)]
  BY ConcatProperties
<1> QED
  BY <1>1, <1>2, <1>3

(* The lines of a concatenation are those of its parts.                    *)
LEMMA LinesOfConcat ==
    ASSUME NEW P \in Seq(Buffer), NEW Q \in Seq(Buffer)
    PROVE  LinesOf(P \o Q, 1) = LinesOf(P, 1) \cup LinesOf(Q, 1)
<1>1. ASSUME NEW x \in LinesOf(P \o Q, 1) PROVE x \in LinesOf(P, 1) \cup LinesOf(Q, 1)
  <2>1. PICK k \in 1 .. Len(P \o Q) : x \in LinesIn((P \o Q)[k])
    BY <1>1, InLinesOf
  <2>2. CASE k <= Len(P)
    <3>1. k \in 1 .. Len(P) /\ (P \o Q)[k] = P[k]
      BY <2>2, ConcatElements
    <3> QED
      BY <2>1, <3>1, InLinesOf
  <2>3. CASE k > Len(P)
    <3>1. k - Len(P) \in 1 .. Len(Q) /\ (P \o Q)[k] = Q[k - Len(P)]
      BY <2>3, ConcatElements
    <3> QED
      BY <2>1, <3>1, InLinesOf
  <2> QED
    BY <2>2, <2>3, ConcatElements
<1>2. ASSUME NEW x \in LinesOf(P, 1) PROVE x \in LinesOf(P \o Q, 1)
  <2>1. PICK k \in 1 .. Len(P) : x \in LinesIn(P[k])
    BY <1>2, InLinesOf
  <2>2. k \in 1 .. Len(P \o Q) /\ (P \o Q)[k] = P[k]
    BY ConcatElements
  <2> QED
    BY <2>1, <2>2, InLinesOf
<1>3. ASSUME NEW x \in LinesOf(Q, 1) PROVE x \in LinesOf(P \o Q, 1)
  <2>1. PICK k \in 1 .. Len(Q) : x \in LinesIn(Q[k])
    BY <1>3, InLinesOf
  <2>2. Len(P) + k \in 1 .. Len(P \o Q) /\ (P \o Q)[Len(P) + k] = Q[k]
    BY ConcatElements
  <2> QED
    BY <2>1, <2>2, InLinesOf
<1> QED
  BY <1>1, <1>2, <1>3

(* A concatenation is in order when its parts are and the first comes      *)
(* before the second, and only then.                                       *)
LEMMA InOrderConcat ==
    ASSUME NEW P \in Seq(Buffer), NEW Q \in Seq(Buffer)
    PROVE  InOrder(P \o Q) <=> InOrder(P) /\ InOrder(Q) /\ Before(P, Q)
<1>1. /\ Len(P) \in Nat /\ Len(Q) \in Nat
      /\ Len(P \o Q) = Len(P) + Len(Q)
      /\ \A k \in 1 .. Len(P) : (P \o Q)[k] = P[k]
      /\ \A k \in 1 .. Len(Q) : (P \o Q)[Len(P) + k] = Q[k]
      /\ \A k \in 1 .. Len(P \o Q) : k > Len(P) =>
             k - Len(P) \in 1 .. Len(Q) /\ (P \o Q)[k] = Q[k - Len(P)]
  BY ConcatElements
<1> HIDE DEF LinesIn
<1>2. ASSUME InOrder(P \o Q) PROVE InOrder(P) /\ InOrder(Q) /\ Before(P, Q)
  <2>1. InOrder(P)
    <3>1. ASSUME NEW k \in 1 .. Len(P)
          PROVE  k \in 1 .. Len(P \o Q) /\ (P \o Q)[k] = P[k]
      BY <1>1
    <3> QED
      BY <1>2, <3>1 DEF InOrder
  <2>2. InOrder(Q)
    <3>1. ASSUME NEW k \in 1 .. Len(Q)
          PROVE  Len(P) + k \in 1 .. Len(P \o Q) /\ (P \o Q)[Len(P) + k] = Q[k]
      BY <1>1
    <3>2. \A j, k \in 1 .. Len(Q) : j < k => Len(P) + j < Len(P) + k
      BY <1>1
    <3> QED
      BY <1>2, <3>1, <3>2 DEF InOrder
  <2>3. Before(P, Q)
    <3> SUFFICES ASSUME NEW x \in LinesOf(P, 1), NEW y \in LinesOf(Q, 1) PROVE x < y
      BY DEF Before
    <3>1. PICK j \in 1 .. Len(P) : x \in LinesIn(P[j])
      BY InLinesOf
    <3>2. PICK k \in 1 .. Len(Q) : y \in LinesIn(Q[k])
      BY InLinesOf
    <3>3. /\ j \in 1 .. Len(P \o Q) /\ Len(P) + k \in 1 .. Len(P \o Q)
          /\ j < Len(P) + k
          /\ (P \o Q)[j] = P[j] /\ (P \o Q)[Len(P) + k] = Q[k]
      BY <1>1
    <3> QED
      BY <1>2, <3>1, <3>2, <3>3 DEF InOrder
  <2> QED
    BY <2>1, <2>2, <2>3
<1>3. ASSUME InOrder(P), InOrder(Q), Before(P, Q) PROVE InOrder(P \o Q)
  <2>1. ASSUME NEW k \in 1 .. Len(P \o Q)
        PROVE  \/ k \in 1 .. Len(P) /\ (P \o Q)[k] = P[k]
               \/ /\ k > Len(P) /\ k - Len(P) \in 1 .. Len(Q)
                  /\ (P \o Q)[k] = Q[k - Len(P)]
    BY <1>1
  <2>2. ASSUME NEW k \in 1 .. Len(P \o Q),
               NEW a \in 1 .. Len((P \o Q)[k].lines),
               NEW b \in 1 .. Len((P \o Q)[k].lines), a < b
        PROVE  (P \o Q)[k].lines[a] < (P \o Q)[k].lines[b]
    BY <1>3, <2>1, <2>2 DEF InOrder
  <2>3. ASSUME NEW j \in 1 .. Len(P \o Q), NEW k \in 1 .. Len(P \o Q), j < k,
               NEW x \in LinesIn((P \o Q)[j]), NEW y \in LinesIn((P \o Q)[k])
        PROVE  x < y
    <3>1. CASE k \in 1 .. Len(P)
      <4>1. j \in 1 .. Len(P) /\ (P \o Q)[j] = P[j] /\ (P \o Q)[k] = P[k]
        BY <1>1, <2>3, <3>1
      <4> QED
        BY <1>3, <2>3, <3>1, <4>1 DEF InOrder
    <3>2. CASE j > Len(P)
      <4>1. /\ j - Len(P) \in 1 .. Len(Q) /\ k - Len(P) \in 1 .. Len(Q)
            /\ j - Len(P) < k - Len(P)
            /\ (P \o Q)[j] = Q[j - Len(P)] /\ (P \o Q)[k] = Q[k - Len(P)]
        BY <1>1, <2>3, <3>2
      <4> QED
        BY <1>3, <2>3, <4>1 DEF InOrder
    <3>3. CASE j \in 1 .. Len(P) /\ k > Len(P)
      <4>1. /\ k - Len(P) \in 1 .. Len(Q)
            /\ (P \o Q)[j] = P[j] /\ (P \o Q)[k] = Q[k - Len(P)]
        BY <1>1, <3>3
      <4>2. x \in LinesOf(P, 1) /\ y \in LinesOf(Q, 1)
        BY <2>3, <3>3, <4>1, InLinesOf
      <4> QED
        BY <1>3, <4>2 DEF Before
    <3> QED
      BY <1>1, <2>3, <3>1, <3>2, <3>3
  <2> QED
    BY <2>2, <2>3 DEF InOrder
<1> QED
  BY <1>2, <1>3

(* A vector of one buffer.                                                 *)
LEMMA OneBuffer ==
    ASSUME NEW b \in Buffer
    PROVE  /\ <<b>> \in Seq(Buffer)
           /\ LinesOf(<<b>>, 1) = LinesIn(b)
           /\ InOrder(<<b>>) <=>
                  \A i, j \in 1 .. Len(b.lines) : i < j => b.lines[i] < b.lines[j]
<1>1. <<b>> \in Seq(Buffer) /\ Len(<<b>>) = 1 /\ <<b>>[1] = b
  OBVIOUS
<1>2. \A x : x \in LinesOf(<<b>>, 1) <=> x \in LinesIn(b)
  BY <1>1, InLinesOf
<1>3. \A k \in 1 .. Len(<<b>>) : k = 1
  BY <1>1
<1>4. InOrder(<<b>>) <=> \A i, j \in 1 .. Len(b.lines) : i < j => b.lines[i] < b.lines[j]
  <2>1. ASSUME InOrder(<<b>>), NEW i \in 1 .. Len(b.lines), NEW j \in 1 .. Len(b.lines), i < j
        PROVE  b.lines[i] < b.lines[j]
    <3>1. 1 \in 1 .. Len(<<b>>)
      BY <1>1
    <3> QED
      BY <1>1, <2>1, <3>1 DEF InOrder
  <2>2. ASSUME \A i, j \in 1 .. Len(b.lines) : i < j => b.lines[i] < b.lines[j]
        PROVE  InOrder(<<b>>)
    <3>1. \A k \in 1 .. Len(<<b>>) : \A i, j \in 1 .. Len(<<b>>[k].lines) :
              i < j => <<b>>[k].lines[i] < <<b>>[k].lines[j]
      BY <1>1, <1>3, <2>2
    <3>2. \A j, k \in 1 .. Len(<<b>>) : ~(j < k)
      BY <1>3
    <3> QED
      BY <3>1, <3>2 DEF InOrder
  <2> QED
    BY <2>1, <2>2
<1> QED
  BY <1>1, <1>2, <1>4

(* The empty vector and the empty buffer hold no line.                     *)
LEMMA EmptyHolds ==
    /\ LinesOf(<<>>, 1) = {} /\ InOrder(<<>>)
    /\ LinesOf(<<EmptyBuffer>>, 1) = {} /\ InOrder(<<EmptyBuffer>>)
<1>1. LinesOf(<<>>, 1) = {} /\ InOrder(<<>>)
  BY InLinesOf DEF InOrder
<1>2. EmptyBuffer.lines = <<>>
  BY DEF EmptyBuffer
<1>3. LinesIn(EmptyBuffer) = {}
  BY <1>2 DEF LinesIn
<1> QED
  BY <1>1, <1>2, <1>3, OneBuffer, EmptyIsBuffer

(* A buffer with the lines of two, one after the other.                    *)
LEMMA JoinedBuffer ==
    ASSUME NEW b \in Buffer, NEW c \in Buffer, NEW d \in Buffer,
           NEW S \in Seq(Lines), NEW T \in Seq(Lines),
           b.lines = S, c.lines = T, d.lines = S \o T
    PROVE  /\ LinesIn(d) = LinesIn(b) \cup LinesIn(c)
           /\ InOrder(<<b>> \o <<c>>) => InOrder(<<d>>)
<1>1. /\ LinesIn(b) = {S[i] : i \in 1 .. Len(S)}
      /\ LinesIn(c) = {T[i] : i \in 1 .. Len(T)}
      /\ LinesIn(d) = {(S \o T)[i] : i \in 1 .. Len(S \o T)}
  BY DEF LinesIn
<1>2. /\ Len(S) \in Nat /\ Len(T) \in Nat
      /\ Len(S \o T) = Len(S) + Len(T)
      /\ \A k \in 1 .. Len(S) : (S \o T)[k] = S[k]
      /\ \A k \in 1 .. Len(T) : (S \o T)[Len(S) + k] = T[k]
      /\ \A k \in 1 .. Len(S \o T) : k > Len(S) =>
             /\ k - Len(S) \in 1 .. Len(T)
             /\ (S \o T)[k] = T[k - Len(S)]
  BY ConcatElements
<1>3. LinesIn(d) = LinesIn(b) \cup LinesIn(c)
  <2>1. ASSUME NEW k \in 1 .. Len(S \o T) PROVE (S \o T)[k] \in LinesIn(b) \cup LinesIn(c)
    BY <1>1, <1>2
  <2>2. ASSUME NEW k \in 1 .. Len(S) PROVE S[k] \in LinesIn(d)
    BY <1>1, <1>2
  <2>3. ASSUME NEW k \in 1 .. Len(T) PROVE T[k] \in LinesIn(d)
    <3>1. Len(S) + k \in 1 .. Len(S \o T)
      BY <1>2
    <3> QED
      BY <1>1, <1>2, <3>1
  <2>4. LinesIn(d) \subseteq LinesIn(b) \cup LinesIn(c)
    BY <1>1, <2>1
  <2>5. LinesIn(b) \subseteq LinesIn(d)
    BY <1>1, <2>2
  <2>6. LinesIn(c) \subseteq LinesIn(d)
    BY <1>1, <2>3
  <2> QED
    BY <2>4, <2>5, <2>6
<1>4. ASSUME InOrder(<<b>> \o <<c>>) PROVE InOrder(<<d>>)
  <2>1. InOrder(<<b>>) /\ InOrder(<<c>>) /\ Before(<<b>>, <<c>>)
    BY <1>4, InOrderConcat, OneBuffer
  <2>2. /\ \A i, j \in 1 .. Len(S) : i < j => S[i] < S[j]
        /\ \A i, j \in 1 .. Len(T) : i < j => T[i] < T[j]
    BY <2>1, OneBuffer
  <2>3. \A x \in LinesIn(b), y \in LinesIn(c) : x < y
    BY <2>1, OneBuffer DEF Before
  <2>4. \A i \in 1 .. Len(S), j \in 1 .. Len(T) : S[i] < T[j]
    BY <1>1, <2>3
  <2>5. ASSUME NEW i \in 1 .. Len(S \o T), NEW j \in 1 .. Len(S \o T), i < j
        PROVE  (S \o T)[i] < (S \o T)[j]
    <3>1. CASE j <= Len(S)
      BY <1>2, <2>2, <2>5, <3>1
    <3>2. CASE i > Len(S)
      <4>1. /\ i - Len(S) \in 1 .. Len(T)
            /\ j - Len(S) \in 1 .. Len(T)
            /\ i - Len(S) < j - Len(S)
        BY <1>2, <2>5, <3>2
      <4> QED
        BY <1>2, <2>2, <2>5, <3>2, <4>1
    <3>3. CASE i <= Len(S) /\ j > Len(S)
      <4>1. i \in 1 .. Len(S) /\ j - Len(S) \in 1 .. Len(T)
        BY <1>2, <3>3
      <4> QED
        BY <1>2, <2>4, <3>3, <4>1
    <3> QED
      BY <1>2, <3>1, <3>2, <3>3
  <2> QED
    BY <2>5, OneBuffer
<1> QED
  BY <1>3, <1>4

-------------------------------------------------------------------------------
(* What the variables of the backend are, beyond SparesOK.                 *)
WriterOK ==
    /\ isRunning \in BOOLEAN /\ joining \in BOOLEAN /\ threadSafe \in BOOLEAN
    /\ next \in {<<>>, <<EmptyBuffer>>}
    /\ new1 \in {<<>>, <<EmptyBuffer>>} /\ new2 \in {<<>>, <<EmptyBuffer>>}
    /\ written \in 0 .. Len(toWrite)
    /\ pc \in {"start", "abortAtStart"} => toWrite = <<>>
    /\ pc = "cut" => written = 0
    /\ pc = "recycle" => written = Len(toWrite)
    /\ file \in Seq(Lines)
    /\ numLines \in 0 .. MaxLines
    /\ dropped \subseteq 1 .. numLines

(* The lines are where NothingLost says they are.                          *)
LinesOK == InOrder(Held) /\ LinesOf(Held, 1) = (1 .. numLines) \ dropped

LostInv == AssertInv /\ WriterOK /\ LinesOK

(* The file as a vector of one buffer, and the rest of the batch.          *)
File == <<[lines |-> file, used |-> 0]>>

Rest == SubSeq(toWrite, written + 1, Len(toWrite))

(* These and the buffers of the frontend make up Held.                     *)
LEMMA HeldParts ==
    ASSUME LostInv
    PROVE  /\ File \in Seq(Buffer) /\ Rest \in Seq(Buffer)
           /\ vec \o current \in Seq(Buffer)
           /\ Held = File \o (Rest \o (vec \o current)) /\ Held \in Seq(Buffer)
<1>1. [lines |-> file, used |-> 0] \in Buffer
  BY AsyncLogAssumption DEF LostInv, WriterOK, Buffer
<1>2. File \in Seq(Buffer)
  BY <1>1 DEF File
<1>3. Rest \in Seq(Buffer)
  <2>1. toWrite \in Seq(Buffer) /\ written \in 0 .. Len(toWrite)
    BY DEF LostInv, AssertInv, BuffersOK, WriterOK
  <2> QED
    BY <2>1, SubSeqProperties DEF Rest
<1>4. vec \o current \in Seq(Buffer)
  BY ConcatProperties DEF LostInv, AssertInv, BuffersOK
<1>5. Rest \o (vec \o current) \in Seq(Buffer)
  BY <1>3, <1>4, ConcatProperties
<1>6. File \o (Rest \o (vec \o current)) \in Seq(Buffer)
  BY <1>2, <1>5, ConcatProperties
<1> QED
  BY <1>2, <1>3, <1>4, <1>6 DEF Held, File, Rest

(* A batch that is cut: its first two buffers and the dropped ones.        *)
LEMMA CutParts ==
    ASSUME LostInv, pc = "cut", Len(toWrite) > MaxBuffers,
           NEW A, A = SubSeq(toWrite, 1, 2),
           NEW B, B = SubSeq(toWrite, 3, Len(toWrite))
    PROVE  /\ A \in Seq(Buffer) /\ B \in Seq(Buffer)
           /\ Rest = A \o B
           /\ Len(A) = 2
           /\ LinesOf(B, 1) = LinesOf(toWrite, 3)
           /\ LinesOf(toWrite, 3) \subseteq (1 .. numLines) \ dropped
<1>1. toWrite \in Seq(Buffer) /\ Len(toWrite) \in Nat /\ Len(toWrite) >= 3 /\ written = 0
  BY AsyncLogAssumption DEF LostInv, AssertInv, BuffersOK, WriterOK
<1>2. A \in Seq(Buffer) /\ Len(A) = 2
  BY <1>1, SubSeqProperties
<1>3. /\ B \in Seq(Buffer) /\ Len(B) = Len(toWrite) - 2
      /\ \A i \in 1 .. Len(toWrite) - 2 : B[i] = toWrite[i + 2]
  <2>1. \A i \in 3 .. Len(toWrite) : toWrite[i] \in Buffer
    BY <1>1
  <2>2. /\ B \in Seq(Buffer)
        /\ Len(B) = IF 3 <= Len(toWrite) THEN Len(toWrite) - 3 + 1 ELSE 0
        /\ \A i \in 1 .. Len(toWrite) - 3 + 1 : B[i] = toWrite[3 + i - 1]
    BY <1>1, <2>1, SubSeqProperties
  <2> QED
    BY <1>1, <2>2
<1>4. Rest = A \o B
  <2>1. SubSeq(toWrite, 1, 2) \o SubSeq(toWrite, 2 + 1, Len(toWrite))
            = SubSeq(toWrite, 1, Len(toWrite))
    <3>1. /\ 1 \in 1 .. Len(toWrite) + 1 /\ 2 \in 1 - 1 .. Len(toWrite)
          /\ Len(toWrite) \in 2 .. Len(toWrite)
      BY <1>1
    <3> QED
      BY <1>1, <3>1, ConcatAdjacentSubSeq
  <2> QED
    BY <1>1, <2>1 DEF Rest
<1>5. LinesOf(B, 1) = LinesOf(toWrite, 3)
  <2>1. ASSUME NEW x \in LinesOf(B, 1) PROVE x \in LinesOf(toWrite, 3)
    <3>1. PICK k \in 1 .. Len(B) : x \in LinesIn(B[k])
      BY <2>1, InLinesOf
    <3>2. k + 2 \in 3 .. Len(toWrite) /\ B[k] = toWrite[k + 2]
      BY <1>1, <1>3
    <3> QED
      BY <3>1, <3>2, InLinesOf
  <2>2. ASSUME NEW x \in LinesOf(toWrite, 3) PROVE x \in LinesOf(B, 1)
    <3>1. PICK k \in 3 .. Len(toWrite) : x \in LinesIn(toWrite[k])
      BY <2>2, InLinesOf
    <3>2. k - 2 \in 1 .. Len(B) /\ B[k - 2] = toWrite[k]
      BY <1>1, <1>3
    <3> QED
      BY <3>1, <3>2, InLinesOf
  <2> QED
    BY <2>1, <2>2
<1>6. LinesOf(B, 1) \subseteq LinesOf(Held, 1)
  <2>1. /\ File \in Seq(Buffer) /\ vec \o current \in Seq(Buffer)
        /\ Held = File \o (Rest \o (vec \o current))
    BY HeldParts
  <2>2. Rest \in Seq(Buffer) /\ Rest \o (vec \o current) \in Seq(Buffer)
    BY <2>1, HeldParts, ConcatProperties
  <2>3. LinesOf(Held, 1) = LinesOf(File, 1) \cup (LinesOf(Rest, 1) \cup LinesOf(vec \o current, 1))
    <3>1. LinesOf(File \o (Rest \o (vec \o current)), 1)
              = LinesOf(File, 1) \cup LinesOf(Rest \o (vec \o current), 1)
      BY <2>1, <2>2, LinesOfConcat
    <3>2. LinesOf(Rest \o (vec \o current), 1) = LinesOf(Rest, 1) \cup LinesOf(vec \o current, 1)
      BY <2>1, <2>2, LinesOfConcat
    <3> QED
      BY <2>1, <3>1, <3>2
  <2>4. LinesOf(Rest, 1) = LinesOf(A, 1) \cup LinesOf(B, 1)
    BY <1>2, <1>3, <1>4, LinesOfConcat
  <2> QED
    BY <2>3, <2>4
<1>7. LinesOf(Held, 1) = (1 .. numLines) \ dropped
  BY DEF LostInv, LinesOK
<1> QED
  BY <1>2, <1>3, <1>4, <1>5, <1>6, <1>7

(* The variables keep what WriterOK says of them.                          *)
LEMMA WriterStep == LostInv /\ [Next]_vars => WriterOK'
<1> SUFFICES ASSUME AssertInv, WriterOK, LostInv, [Next]_vars PROVE WriterOK'
  BY DEF LostInv
<1> USE AsyncLogAssumption
<1>1. ASSUME NEW len \in LineLens, AppendLine(len) PROVE WriterOK'
  BY <1>1 DEF AppendLine, backend, WriterOK, Alive
<1>2. CASE Stop
  BY <1>2 DEF Stop, backend, WriterOK
<1>3. CASE BackendStart
  BY <1>3 DEF BackendStart, shared, WriterOK
<1>4. ASSUME SwapBuffers, TopAssertions, pc' = "cut", UNCHANGED <<written, file, dropped>>
      PROVE  WriterOK'
  <2>1. toWrite = <<>> /\ written = 0 /\ Len(vec \o current) \in Nat
    <3>1. toWrite = <<>> /\ written \in 0 .. Len(toWrite)
      BY <1>4 DEF TopAssertions, Null, WriterOK
    <3>2. vec \o current \in Seq(Buffer)
      BY ConcatProperties DEF AssertInv, BuffersOK
    <3> QED
      BY <3>1, <3>2
  <2>2. toWrite' = vec \o current /\ written' = 0
    BY <1>4, <2>1 DEF SwapBuffers
  <2>3. written' \in 0 .. Len(toWrite')
    BY <2>1, <2>2
  <2> QED
    BY <1>4, <2>2, <2>3 DEF SwapBuffers, TopAssertions, Null, WriterOK
<1>5. CASE BackendTop
  <2>1. TopAssertions
    BY <1>5 DEF BackendTop, AssertInv, SparesOK
  <2>2. CASE vec = <<>>
    BY <1>5, <2>1, <2>2 DEF BackendTop, shared, WriterOK
  <2>3. CASE vec # <<>>
    BY <1>4, <1>5, <2>1, <2>3 DEF BackendTop
  <2> QED
    BY <2>2, <2>3
<1>6. CASE BackendWake
  BY <1>4, <1>6 DEF BackendWake, AssertInv, SparesOK
<1>7. CASE UNCHANGED vars
  BY <1>7 DEF vars, WriterOK
<1>8. CASE BackendCut
  <2>0. CASE pc' = "stuck"
    <3>1. UNCHANGED <<new1, new2, toWrite, written, file, dropped>> /\ UNCHANGED shared
      BY <1>8, <2>0 DEF BackendCut
    <3> QED
      BY <2>0, <3>1 DEF shared, WriterOK
  <2> SUFFICES ASSUME pc' # "stuck" PROVE WriterOK'
    BY <2>0
  <2>1. /\ pc = "cut" /\ pc' = "write" /\ toWrite' = CutBatch(toWrite)
        /\ dropped' = dropped \cup
               (IF Len(toWrite) > MaxBuffers THEN LinesOf(toWrite, 3) ELSE {})
        /\ written' = written /\ written = 0
        /\ UNCHANGED <<new1, new2, file>> /\ UNCHANGED shared
    BY <1>8 DEF BackendCut, AssertInv, BuffersOK, SparesOK, WriterOK, Null
  <2>2. dropped' \subseteq 1 .. numLines
    BY <2>1, CutParts DEF WriterOK
  <2>3. Len(toWrite') \in Nat
    <3>1. CASE Len(toWrite) > MaxBuffers
      BY <2>1, <3>1, CutParts DEF CutBatch
    <3>2. CASE ~(Len(toWrite) > MaxBuffers)
      BY <2>1, <3>2 DEF CutBatch, AssertInv, BuffersOK
    <3> QED
      BY <3>1, <3>2
  <2>4. written' \in 0 .. Len(toWrite')
    BY <2>1, <2>3
  <2> QED
    BY <2>1, <2>2, <2>4 DEF shared, WriterOK
<1>9. CASE BackendWrite
  <2>1. toWrite \in Seq(Buffer) /\ Len(toWrite) \in Nat /\ written \in 0 .. Len(toWrite)
    BY DEF AssertInv, BuffersOK, WriterOK
  <2>2. CASE written < Len(toWrite)
    <3>1. toWrite[written + 1] \in Buffer
      BY <2>1, <2>2
    <3>2. file \o toWrite[written + 1].lines \in Seq(Lines)
      BY <3>1, ConcatProperties DEF WriterOK, Buffer
    <3>3. written + 1 \in 0 .. Len(toWrite)
      BY <2>1, <2>2
    <3> QED
      BY <1>9, <2>2, <3>2, <3>3 DEF BackendWrite, shared, WriterOK
  <2>3. CASE ~(written < Len(toWrite))
    <3>1. written = Len(toWrite)
      BY <2>1, <2>3
    <3> QED
      BY <1>9, <2>3, <3>1 DEF BackendWrite, shared, WriterOK
  <2> QED
    BY <2>2, <2>3
<1>10. CASE BackendRecycle
  BY <1>10 DEF BackendRecycle, shared, WriterOK, Null
<1> QED
  BY <1>1, <1>2, <1>3, <1>5, <1>6, <1>7, <1>8, <1>9, <1>10 DEF Next, BackendStep

(* An empty buffer at the end changes nothing.                             *)
LEMMA AddEmpty ==
    ASSUME NEW P \in Seq(Buffer), InOrder(P)
    PROVE  /\ P \o <<EmptyBuffer>> \in Seq(Buffer)
           /\ InOrder(P \o <<EmptyBuffer>>)
           /\ LinesOf(P \o <<EmptyBuffer>>, 1) = LinesOf(P, 1)
<1>1. <<EmptyBuffer>> \in Seq(Buffer)
  BY EmptyIsBuffer
<1>2. Before(P, <<EmptyBuffer>>)
  BY EmptyHolds DEF Before
<1>3. QED
  <2>1. InOrder(P \o <<EmptyBuffer>>)
    BY <1>1, <1>2, EmptyHolds, InOrderConcat
  <2>2. LinesOf(P \o <<EmptyBuffer>>, 1) = LinesOf(P, 1) \cup LinesOf(<<EmptyBuffer>>, 1)
    BY <1>1, LinesOfConcat
  <2>3. P \o <<EmptyBuffer>> \in Seq(Buffer)
    BY <1>1, ConcatProperties
  <2> QED
    BY <2>1, <2>2, <2>3, EmptyHolds

(* Every line of P and of b after it is before n.                          *)
Below(P, b, n) == \A x \in LinesOf(P \o <<b>>, 1) : x < n

(* d after P adds line n to what b after P holds.                          *)
Added(P, b, d, n) ==
    /\ InOrder(P \o <<d>>)
    /\ LinesOf(P \o <<d>>, 1) = LinesOf(P \o <<b>>, 1) \cup {n}

(* A line that is after all others, added to the last buffer.              *)
LEMMA AddLine ==
    ASSUME NEW P \in Seq(Buffer), NEW b \in Buffer, InOrder(P \o <<b>>),
           NEW n \in Lines, Below(P, b, n),
           NEW d \in Buffer, NEW S \in Seq(Lines), b.lines = S, d.lines = Append(S, n)
    PROVE  Added(P, b, d, n)
<1>0. \A x \in LinesOf(P \o <<b>>, 1) : x < n
  BY Zenon DEF Below
<1> DEFINE c == [lines |-> <<n>>, used |-> 0]
<1>1. c \in Buffer
  BY AsyncLogAssumption DEF Buffer
<1>2. c.lines = <<n>> /\ LinesIn(c) = {n}
  BY DEF LinesIn
<1> HIDE DEF c
<1>3. InOrder(<<c>>) /\ LinesOf(<<c>>, 1) = {n} /\ <<c>> \in Seq(Buffer)
  BY <1>1, <1>2, OneBuffer
<1>4. /\ <<b>> \in Seq(Buffer) /\ <<d>> \in Seq(Buffer)
      /\ LinesOf(<<b>>, 1) = LinesIn(b) /\ LinesOf(<<d>>, 1) = LinesIn(d)
  BY OneBuffer
<1>5. LinesOf(P \o <<b>>, 1) = LinesOf(P, 1) \cup LinesIn(b)
  BY <1>4, LinesOfConcat
<1>6. InOrder(P) /\ InOrder(<<b>>) /\ Before(P, <<b>>)
  BY <1>4, InOrderConcat
<1>7. InOrder(<<b>> \o <<c>>)
  <2>1. Before(<<b>>, <<c>>)
    BY <1>0, <1>3, <1>4, <1>5 DEF Before
  <2> QED
    BY <1>3, <1>4, <1>6, <2>1, InOrderConcat
<1>8. d.lines = b.lines \o c.lines /\ b.lines \in Seq(Lines) /\ c.lines \in Seq(Lines)
  BY <1>1, <1>2, AppendIsConcat DEF Buffer
<1>9. LinesIn(d) = LinesIn(b) \cup {n} /\ InOrder(<<d>>)
  <2>1. /\ LinesIn(d) = LinesIn(b) \cup LinesIn(c)
        /\ InOrder(<<b>> \o <<c>>) => InOrder(<<d>>)
    BY <1>1, <1>8, JoinedBuffer
  <2> QED
    BY <1>2, <1>7, <2>1
<1>10. Before(P, <<d>>)
  BY <1>0, <1>4, <1>5, <1>6, <1>9 DEF Before
<1>11. InOrder(P \o <<d>>)
  BY <1>4, <1>6, <1>9, <1>10, InOrderConcat
<1>12. LinesOf(P \o <<d>>, 1) = LinesOf(P, 1) \cup LinesIn(d)
  BY <1>4, LinesOfConcat
<1>13. LinesOf(P \o <<d>>, 1) = LinesOf(P \o <<b>>, 1) \cup {n}
  BY <1>5, <1>9, <1>12
<1> QED
  BY <1>11, <1>13, Zenon DEF Added

(* d holds the lines of b and then those of c.                             *)
Joined(b, c, d) == d.lines = b.lines \o c.lines

(* The buffer after the file, written to it.                               *)
LEMMA MergeFirst ==
    ASSUME NEW f \in Buffer, NEW b \in Buffer, NEW d \in Buffer, NEW T \in Seq(Buffer),
           Joined(f, b, d), InOrder(<<f>> \o (<<b>> \o T))
    PROVE  /\ InOrder(<<d>> \o T)
           /\ LinesOf(<<d>> \o T, 1) = LinesOf(<<f>> \o (<<b>> \o T), 1)
<1>1. /\ <<f>> \in Seq(Buffer) /\ <<b>> \in Seq(Buffer) /\ <<d>> \in Seq(Buffer)
      /\ LinesOf(<<f>>, 1) = LinesIn(f) /\ LinesOf(<<b>>, 1) = LinesIn(b)
      /\ LinesOf(<<d>>, 1) = LinesIn(d)
  BY OneBuffer
<1>2. <<f>> \o <<b>> \in Seq(Buffer) /\ <<f>> \o (<<b>> \o T) = (<<f>> \o <<b>>) \o T
  <2>1. <<f>> \o <<b>> \in Seq(Buffer)
    BY <1>1, ConcatProperties
  <2>2. <<f>> \o (<<b>> \o T) = (<<f>> \o <<b>>) \o T
    BY <1>1, Regroup
  <2> QED
    BY <2>1, <2>2
<1>3. InOrder(<<f>> \o <<b>>) /\ InOrder(T) /\ Before(<<f>> \o <<b>>, T)
  BY <1>2, InOrderConcat
<1>4. LinesOf(<<f>> \o <<b>>, 1) = LinesIn(f) \cup LinesIn(b)
  <2>1. LinesOf(<<f>> \o <<b>>, 1) = LinesOf(<<f>>, 1) \cup LinesOf(<<b>>, 1)
    BY <1>1, LinesOfConcat, Zenon
  <2> QED
    BY <1>1, <2>1, Zenon
<1>5. LinesIn(d) = LinesIn(f) \cup LinesIn(b) /\ InOrder(<<d>>)
  <2>1. f.lines \in Seq(Lines) /\ b.lines \in Seq(Lines)
    BY DEF Buffer
  <2>2. /\ LinesIn(d) = LinesIn(f) \cup LinesIn(b)
        /\ InOrder(<<f>> \o <<b>>) => InOrder(<<d>>)
    BY <2>1, JoinedBuffer DEF Joined
  <2> QED
    BY <1>3, <2>2
<1>6. Before(<<d>>, T)
  BY <1>1, <1>3, <1>4, <1>5 DEF Before
<1>7. InOrder(<<d>> \o T)
  BY <1>1, <1>3, <1>5, <1>6, InOrderConcat
<1>8. LinesOf(<<d>> \o T, 1) = LinesIn(d) \cup LinesOf(T, 1)
  BY <1>1, LinesOfConcat
<1>9. LinesOf((<<f>> \o <<b>>) \o T, 1) = LinesOf(<<f>> \o <<b>>, 1) \cup LinesOf(T, 1)
  BY <1>2, LinesOfConcat
<1> QED
  BY <1>2, <1>4, <1>5, <1>7, <1>8, <1>9

(* Buffers taken out of the middle leave the others in order, and take     *)
(* only their own lines.                                                   *)
LEMMA DropMiddle ==
    ASSUME NEW P \in Seq(Buffer), NEW A \in Seq(Buffer), NEW B \in Seq(Buffer),
           NEW R \in Seq(Buffer), InOrder(P \o ((A \o B) \o R))
    PROVE  /\ InOrder(P \o (A \o R))
           /\ LinesOf(P \o (A \o R), 1) = LinesOf(P \o ((A \o B) \o R), 1) \ LinesOf(B, 1)
<1>1. A \o B \in Seq(Buffer) /\ A \o R \in Seq(Buffer)
  BY ConcatProperties
<1>2. (A \o B) \o R \in Seq(Buffer)
  BY <1>1, ConcatProperties
<1>3. LinesOf(A \o B, 1) = LinesOf(A, 1) \cup LinesOf(B, 1)
  BY LinesOfConcat
<1>4. LinesOf((A \o B) \o R, 1) = LinesOf(A \o B, 1) \cup LinesOf(R, 1)
  BY <1>1, LinesOfConcat
<1>5. LinesOf(P \o ((A \o B) \o R), 1) = LinesOf(P, 1) \cup LinesOf((A \o B) \o R, 1)
  BY <1>2, LinesOfConcat
<1>6. LinesOf(A \o R, 1) = LinesOf(A, 1) \cup LinesOf(R, 1)
  BY LinesOfConcat
<1>7. LinesOf(P \o (A \o R), 1) = LinesOf(P, 1) \cup LinesOf(A \o R, 1)
  BY <1>1, LinesOfConcat
<1>8. InOrder(P) /\ InOrder((A \o B) \o R) /\ Before(P, (A \o B) \o R)
  BY <1>2, InOrderConcat
<1>9. InOrder(A \o B) /\ InOrder(R) /\ Before(A \o B, R)
  BY <1>1, <1>8, InOrderConcat
<1>10. InOrder(A) /\ InOrder(B) /\ Before(A, B)
  BY <1>9, InOrderConcat
<1>11. InOrder(A \o R)
  <2>1. Before(A, R)
    BY <1>3, <1>9 DEF Before
  <2> QED
    BY <1>9, <1>10, <2>1, InOrderConcat
<1>12. InOrder(P \o (A \o R))
  <2>1. Before(P, A \o R)
    BY <1>3, <1>4, <1>6, <1>8 DEF Before
  <2> QED
    BY <1>1, <1>8, <1>11, <2>1, InOrderConcat
<1>13. /\ \A x \in LinesOf(P, 1), y \in LinesOf(B, 1) : x < y
       /\ \A x \in LinesOf(A, 1), y \in LinesOf(B, 1) : x < y
       /\ \A x \in LinesOf(B, 1), y \in LinesOf(R, 1) : x < y
  BY <1>3, <1>4, <1>8, <1>9, <1>10 DEF Before
<1>14. LinesOf(B, 1) \cap (LinesOf(P, 1) \cup (LinesOf(A, 1) \cup LinesOf(R, 1))) = {}
  <2>1. \A x \in LinesOf(B, 1) : ~(x < x)
    BY LinesAreLines, AsyncLogAssumption DEF Lines
  <2> QED
    BY <1>13, <2>1
<1> QED
  BY <1>3, <1>4, <1>5, <1>6, <1>7, <1>12, <1>14

(* Each step keeps the lines where NothingLost says they are.              *)
LEMMA LinesStep == LostInv /\ AssertInv' /\ WriterOK' /\ [Next]_vars => LinesOK'
<1> SUFFICES ASSUME LostInv, AssertInv', WriterOK', [Next]_vars PROVE LinesOK'
  OBVIOUS
<1> USE AsyncLogAssumption
<1> DEFINE R == vec \o current
<1>1. /\ File \in Seq(Buffer) /\ Rest \in Seq(Buffer) /\ R \in Seq(Buffer)
      /\ Held = File \o (Rest \o R) /\ Held \in Seq(Buffer)
  BY HeldParts
<1>2. /\ InOrder(Held) /\ LinesOf(Held, 1) = (1 .. numLines) \ dropped
      /\ vec \in Seq(Buffer) /\ current \in Seq(Buffer) /\ Len(current) = 1
      /\ toWrite \in Seq(Buffer) /\ Len(toWrite) \in Nat
      /\ written \in 0 .. Len(toWrite)
      /\ numLines \in 0 .. MaxLines /\ dropped \subseteq 1 .. numLines
  BY DEF LostInv, LinesOK, AssertInv, BuffersOK, WriterOK
<1>3. ASSUME Held' = Held, UNCHANGED <<numLines, dropped>> PROVE LinesOK'
  BY <1>2, <1>3 DEF LinesOK
<1>4. ASSUME Held' = Held \o <<EmptyBuffer>>, UNCHANGED <<numLines, dropped>>
      PROVE  LinesOK'
  <2>1. /\ InOrder(Held \o <<EmptyBuffer>>)
        /\ LinesOf(Held \o <<EmptyBuffer>>, 1) = LinesOf(Held, 1)
    BY <1>1, <1>2, AddEmpty
  <2> QED
    BY <1>2, <1>4, <2>1 DEF LinesOK
<1>5. ASSUME NEW P \in Seq(Buffer), NEW b \in Buffer, NEW len \in LineLens,
             InOrder(P \o <<b>>),
             LinesOf(P \o <<b>>, 1) = (1 .. numLines) \ dropped,
             BufferSize - b.used > len, numLines < MaxLines,
             Held' = P \o <<Put(b, numLines + 1, len)>>,
             numLines' = numLines + 1, dropped' = dropped
      PROVE  LinesOK'
  <2>1. /\ Put(b, numLines + 1, len) \in Buffer
        /\ Put(b, numLines + 1, len).lines = Append(b.lines, numLines + 1)
        /\ numLines + 1 \in Lines
    <3>1. numLines + 1 \in Lines
      BY <1>2, <1>5 DEF Lines
    <3> QED
      BY <1>5, <3>1, PutIsBuffer DEF Put
  <2>2. \A x \in LinesOf(P \o <<b>>, 1) : x < numLines + 1
    BY <1>2, <1>5
  <2>3. /\ InOrder(P \o <<Put(b, numLines + 1, len)>>)
        /\ LinesOf(P \o <<Put(b, numLines + 1, len)>>, 1)
             = LinesOf(P \o <<b>>, 1) \cup {numLines + 1}
    <3> DEFINE n == numLines + 1
               d == Put(b, n, len)
    <3>1. n \in Lines /\ d \in Buffer /\ d.lines = Append(b.lines, n)
      BY <2>1
    <3>2. \A x \in LinesOf(P \o <<b>>, 1) : x < n
      BY <2>2
    <3> HIDE DEF n, d
    <3>4. InOrder(P \o <<b>>)
      BY <1>5
    <3>3. InOrder(P \o <<d>>) /\ LinesOf(P \o <<d>>, 1) = LinesOf(P \o <<b>>, 1) \cup {n}
      <4>1. b.lines \in Seq(Lines)
        BY DEF Buffer
      <4>2. Below(P, b, n)
        BY <3>2, Zenon DEF Below
      <4>3. Added(P, b, d, n)
        BY <3>1, <3>4, <4>1, <4>2, AddLine, Zenon
      <4> QED
        BY <4>3, Zenon DEF Added
    <3> QED
      BY <3>3 DEF n, d
  <2>4. ((1 .. numLines) \ dropped) \cup {numLines + 1} = (1 .. numLines + 1) \ dropped
    BY <1>2
  <2> QED
    BY <1>5, <2>3, <2>4 DEF LinesOK
<1>6. ASSUME NEW len \in LineLens, AppendLine(len) PROVE LinesOK'
  <2>1. /\ numLines < MaxLines /\ numLines' = numLines + 1 /\ UNCHANGED dropped
        /\ UNCHANGED <<toWrite, written, file>>
    BY <1>6 DEF AppendLine, backend
  <2>2. File' = File /\ Rest' = Rest
    BY <2>1 DEF File, Rest
  <2>3. Held' = File \o (Rest \o (vec' \o current'))
    BY <2>1 DEF Held, File, Rest
  <2>4. current[1] \in Buffer /\ current = <<current[1]>>
    BY <1>2, OnePtr
  <2>5. CASE BufferSize - current[1].used > len
    <3> DEFINE P == File \o (Rest \o vec)
    <3>1. Rest \o vec \in Seq(Buffer) /\ P \in Seq(Buffer)
      BY <1>1, <1>2, ConcatProperties
    <3>2. ASSUME NEW c \in Seq(Buffer) PROVE File \o (Rest \o (vec \o c)) = P \o c
      <4>1. /\ File \in Seq(Buffer) /\ Rest \in Seq(Buffer) /\ vec \in Seq(Buffer)
        BY <1>1, <1>2
      <4> DEFINE Four(X, Y, Z, U) == X \o (Y \o (Z \o U)) = (X \o (Y \o Z)) \o U
      <4>2. \A X, Y, Z, U \in Seq(Buffer) : Four(X, Y, Z, U)
        BY RegroupFour, Zenon
      <4> HIDE DEF Four
      <4>3. Four(File, Rest, vec, c)
        BY <4>1, <4>2, Zenon
      <4> QED
        BY <4>3, Zenon DEF Four
    <3>3. current' = <<Put(current[1], numLines + 1, len)>> /\ vec' = vec
      BY <1>2, <1>6, <2>4, <2>5 DEF AppendLine, Buffer
    <3>4. current' \in Seq(Buffer)
      BY DEF AssertInv, BuffersOK
    <3>5. Held' = P \o <<Put(current[1], numLines + 1, len)>>
      BY <2>3, <3>2, <3>3, <3>4
    <3>6. Held = P \o <<current[1]>>
      BY <1>1, <1>2, <2>4, <3>2
    <3> HIDE DEF P
    <3> QED
      BY <1>2, <1>5, <2>1, <2>4, <2>5, <3>1, <3>5, <3>6
  <2>6. CASE ~(BufferSize - current[1].used > len)
    <3>1. vec' = R /\ current' = <<Put(EmptyBuffer, numLines + 1, len)>>
      <4>1. next \in {<<>>, <<EmptyBuffer>>}
        BY DEF LostInv, WriterOK
      <4>2. /\ vec' = vec \o current
            /\ IF Null(next)
                  THEN current' = <<Put(EmptyBuffer, numLines + 1, len)>>
                  ELSE current' = <<Put(next[1], numLines + 1, len)>>
        BY <1>6, <2>6 DEF AppendLine
      <4>3. ~Null(next) => next[1] = EmptyBuffer
        BY <4>1 DEF Null
      <4> QED
        BY <4>2, <4>3
    <3>2. current' \in Seq(Buffer)
      BY DEF AssertInv, BuffersOK
    <3>3. Held' = Held \o current'
      <4> HIDE DEF R
      <4>1. (Rest \o R) \o current' = Rest \o (R \o current') /\ Rest \o R \in Seq(Buffer)
        <5>1. Rest \in Seq(Buffer) /\ R \in Seq(Buffer)
          BY <1>1
        <5>2. (Rest \o R) \o current' = Rest \o (R \o current')
          BY <3>2, <5>1, Regroup
        <5>3. Rest \o R \in Seq(Buffer)
          BY <5>1, ConcatProperties
        <5> QED
          BY <5>2, <5>3
      <4>2. (File \o (Rest \o R)) \o current' = File \o ((Rest \o R) \o current')
        <5>1. File \in Seq(Buffer) /\ Rest \o R \in Seq(Buffer) /\ current' \in Seq(Buffer)
          BY <1>1, <3>2, <4>1
        <5> QED
          BY <5>1, Regroup
      <4> QED
        BY <1>1, <2>3, <3>1, <4>1, <4>2
    <3>4. Held' = Held \o <<Put(EmptyBuffer, numLines + 1, len)>>
      BY <3>1, <3>3
    <3>5. BufferSize - EmptyBuffer.used > len
      BY DEF EmptyBuffer
    <3>6. /\ InOrder(Held \o <<EmptyBuffer>>)
          /\ LinesOf(Held \o <<EmptyBuffer>>, 1) = (1 .. numLines) \ dropped
      BY <1>1, <1>2, AddEmpty
    <3> QED
      BY <1>1, <1>5, <2>1, <3>4, <3>5, <3>6, EmptyIsBuffer
  <2> QED
    BY <2>5, <2>6
<1>7. CASE Stop
  BY <1>3, <1>7 DEF Stop, backend, Held
<1>8. CASE BackendStart
  BY <1>3, <1>8 DEF BackendStart, shared, Held
<1>9. ASSUME SwapBuffers, TopAssertions, UNCHANGED <<written, file, dropped>>
      PROVE  LinesOK'
  <2>1. /\ toWrite = <<>> /\ written = 0 /\ toWrite' = R /\ vec' = <<>>
        /\ current' = <<EmptyBuffer>>
    BY <1>2, <1>9 DEF SwapBuffers, TopAssertions, Null
  <2>2. Rest = <<>>
    <3>1. Len(toWrite) = 0 /\ written + 1 = 1
      BY <2>1
    <3> QED
      BY <3>1, SubSeqEmpty DEF Rest
  <2>3. File \o R = Held
    BY <1>1, <2>2, ConcatEmptySeq
  <2>4. Rest' = R
    <3>1. SubSeq(R, 1, Len(R)) = R
      BY <1>1, SubSeqFull
    <3>2. written' + 1 = 1
      BY <1>9, <2>1
    <3> QED
      BY <2>1, <3>1, <3>2 DEF Rest
  <2>5. <<EmptyBuffer>> \in Seq(Buffer) /\ <<>> \o <<EmptyBuffer>> = <<EmptyBuffer>>
    BY EmptyIsBuffer, OneElement, ConcatEmptySeq
  <2>6. Held' = File' \o (Rest' \o (vec' \o current'))
    BY DEF Held, File, Rest
  <2>7. File' = File
    BY <1>9 DEF File
  <2>8. Held' = File \o (R \o <<EmptyBuffer>>)
    <3> HIDE DEF R
    <3> QED
      BY <2>1, <2>4, <2>5, <2>6, <2>7
  <2>9. (File \o R) \o <<EmptyBuffer>> = File \o (R \o <<EmptyBuffer>>)
    <3>1. File \in Seq(Buffer) /\ R \in Seq(Buffer) /\ <<EmptyBuffer>> \in Seq(Buffer)
      BY <1>1, <2>5
    <3> HIDE DEF R
    <3> QED
      BY <3>1, Regroup
  <2> QED
    BY <1>4, <1>9, <2>3, <2>8, <2>9 DEF SwapBuffers
<1>10. CASE BackendTop
  <2>1. TopAssertions
    BY <1>10 DEF BackendTop, LostInv, AssertInv, SparesOK
  <2>2. CASE vec = <<>>
    BY <1>3, <1>10, <2>1, <2>2 DEF BackendTop, shared, Held
  <2>3. CASE vec # <<>>
    BY <1>9, <1>10, <2>1, <2>3 DEF BackendTop
  <2> QED
    BY <2>2, <2>3
<1>11. CASE BackendWake
  BY <1>9, <1>11 DEF BackendWake, LostInv, AssertInv, SparesOK
<1>12. CASE BackendCut
  <2>0. CASE pc' = "stuck"
    <3>1. UNCHANGED <<toWrite, written, file, dropped>> /\ UNCHANGED shared
      BY <1>12, <2>0 DEF BackendCut
    <3> QED
      BY <1>3, <3>1 DEF shared, Held
  <2> SUFFICES ASSUME pc' # "stuck" PROVE LinesOK'
    BY <2>0
  <2>1. /\ pc = "cut" /\ toWrite' = CutBatch(toWrite) /\ written = 0
        /\ dropped' = dropped \cup
               (IF Len(toWrite) > MaxBuffers THEN LinesOf(toWrite, 3) ELSE {})
        /\ UNCHANGED <<written, file>> /\ UNCHANGED shared
    BY <1>12 DEF BackendCut, LostInv, AssertInv, BuffersOK, SparesOK, WriterOK, Null
  <2>2. CASE ~(Len(toWrite) > MaxBuffers)
    BY <1>3, <2>1, <2>2 DEF CutBatch, shared, Held
  <2>3. CASE Len(toWrite) > MaxBuffers
    <3> DEFINE A == SubSeq(toWrite, 1, 2)
               B == SubSeq(toWrite, 3, Len(toWrite))
    <3>1. /\ A \in Seq(Buffer) /\ B \in Seq(Buffer) /\ Rest = A \o B /\ Len(A) = 2
          /\ LinesOf(B, 1) = LinesOf(toWrite, 3)
      <4>1. A = SubSeq(toWrite, 1, 2) /\ B = SubSeq(toWrite, 3, Len(toWrite))
        OBVIOUS
      <4> HIDE DEF A, B
      <4> QED
        BY <2>1, <2>3, <4>1, CutParts
    <3>2. toWrite' = A
      BY <2>1, <2>3 DEF CutBatch
    <3> HIDE DEF A, B
    <3>3. Held' = File \o (A \o R)
      <4>1. SubSeq(A, 1, Len(A)) = A
        BY <3>1, SubSeqFull
      <4>2. Rest' = SubSeq(A, 1, Len(A))
        BY <2>1, <3>2 DEF Rest
      <4>3. Held' = File' \o (Rest' \o (vec' \o current'))
        BY DEF Held, File, Rest
      <4>4. File' = File /\ vec' \o current' = R
        BY <2>1 DEF File, shared
      <4> QED
        BY <4>1, <4>2, <4>3, <4>4
    <3>4. Held = File \o ((A \o B) \o R)
      BY <1>1, <3>1
    <3> HIDE DEF R
    <3>5. InOrder(Held') /\ LinesOf(Held', 1) = LinesOf(Held, 1) \ LinesOf(toWrite, 3)
      BY <1>1, <1>2, <3>1, <3>3, <3>4, DropMiddle
    <3>6. numLines' = numLines /\ dropped' = dropped \cup LinesOf(toWrite, 3)
      BY <2>1, <2>3 DEF shared
    <3> QED
      BY <1>2, <3>5, <3>6 DEF LinesOK
  <2> QED
    BY <2>2, <2>3
<1>13. CASE BackendWrite
  <2>1. UNCHANGED <<vec, current, toWrite, numLines, dropped>>
    BY <1>13 DEF BackendWrite, shared
  <2>2. CASE ~(written < Len(toWrite))
    BY <1>3, <1>13, <2>1, <2>2 DEF BackendWrite, Held
  <2>3. CASE written < Len(toWrite)
    <3> DEFINE f == [lines |-> file, used |-> 0]
               b == toWrite[written + 1]
               d == [lines |-> file', used |-> 0]
               Q == SubSeq(toWrite, written + 2, Len(toWrite))
    <3>1. file' = file \o b.lines /\ written' = written + 1
      BY <1>13, <2>3 DEF BackendWrite
    <3>2. f \in Buffer /\ d \in Buffer /\ b \in Buffer
      <4>1. file \in Seq(Lines) /\ file' \in Seq(Lines)
        BY DEF LostInv, WriterOK
      <4>2. 0 \in 0 .. BufferSize
        OBVIOUS
      <4>3. written + 1 \in 1 .. Len(toWrite)
        BY <1>2, <2>3
      <4>4. b \in Buffer
        BY <1>2, <4>3, ElementOfSeq
      <4>5. f \in Buffer /\ d \in Buffer
        BY <4>1, <4>2 DEF Buffer
      <4> QED
        BY <4>4, <4>5
    <3>3. d.lines = f.lines \o b.lines
      BY <3>1
    <3>4. Rest = <<b>> \o Q /\ Q \in Seq(Buffer)
      <4>1. written + 1 \in 1 .. Len(toWrite) /\ Len(toWrite) \in written + 1 .. Len(toWrite)
        BY <1>2, <2>3
      <4>2. SubSeq(toWrite, written + 1, Len(toWrite))
              = <<toWrite[written + 1]>> \o SubSeq(toWrite, written + 1 + 1, Len(toWrite))
        BY <1>2, <4>1, SubSeqRecursiveFirst
      <4>3. written + 1 + 1 = written + 2
        BY <1>2
      <4>4. \A i \in written + 2 .. Len(toWrite) : toWrite[i] \in Buffer
        BY <1>2
      <4>5. written + 2 \in Int /\ Len(toWrite) \in Int
        BY <1>2
      <4>6. Q \in Seq(Buffer)
        BY <4>4, <4>5, SubSeqProperties
      <4> QED
        BY <4>2, <4>3, <4>6 DEF Rest
    <3>5. Rest' = Q
      <4>1. written' + 1 = written + 2
        BY <1>2, <3>1
      <4> QED
        BY <2>1, <4>1 DEF Rest
    <3>6. Held' = <<d>> \o (Q \o R)
      <4>1. Held' = File' \o (Rest' \o (vec' \o current'))
        BY DEF Held, File, Rest
      <4>2. File' = <<d>> /\ vec' \o current' = R
        BY <2>1 DEF File
      <4> HIDE DEF d, Q, R
      <4> QED
        BY <3>5, <4>1, <4>2
    <3>7. Held = <<f>> \o (<<b>> \o (Q \o R)) /\ Q \o R \in Seq(Buffer)
      <4>1. File = <<f>>
        BY DEF File
      <4>2. <<b>> \in Seq(Buffer)
        BY <3>2, OneElement
      <4> HIDE DEF f, b, d, Q, R
      <4>3. (<<b>> \o Q) \o R = <<b>> \o (Q \o R) /\ Q \o R \in Seq(Buffer)
        <5>1. Q \in Seq(Buffer) /\ R \in Seq(Buffer)
          BY <1>1, <3>4
        <5>2. (<<b>> \o Q) \o R = <<b>> \o (Q \o R)
          BY <4>2, <5>1, Regroup
        <5>3. Q \o R \in Seq(Buffer)
          BY <5>1, ConcatProperties
        <5> QED
          BY <5>2, <5>3
      <4> QED
        BY <1>1, <3>4, <4>1, <4>3
    <3> HIDE DEF f, b, d, Q, R
    <3>8. InOrder(Held') /\ LinesOf(Held', 1) = LinesOf(Held, 1)
      <4> DEFINE T == Q \o R
      <4>1. /\ T \in Seq(Buffer) /\ Held' = <<d>> \o T
            /\ Held = <<f>> \o (<<b>> \o T) /\ InOrder(<<f>> \o (<<b>> \o T))
        BY <1>2, <3>6, <3>7
      <4> HIDE DEF T
      <4>2. /\ InOrder(<<d>> \o T)
            /\ LinesOf(<<d>> \o T, 1) = LinesOf(<<f>> \o (<<b>> \o T), 1)
        <5>1. T \in Seq(Buffer) /\ InOrder(<<f>> \o (<<b>> \o T))
          BY <4>1
        <5>2. Joined(f, b, d)
          BY <3>3 DEF Joined
        <5> QED
          BY <3>2, <5>1, <5>2, MergeFirst
      <4> QED
        BY <4>1, <4>2
    <3> QED
      BY <1>2, <2>1, <3>8 DEF LinesOK
  <2> QED
    BY <2>2, <2>3
<1>14. CASE BackendRecycle
  <2>1. UNCHANGED <<vec, current, file, numLines, dropped>> /\ written = Len(toWrite)
    BY <1>14 DEF BackendRecycle, shared, LostInv, WriterOK
  <2>2. Rest = <<>>
    <3>1. written + 1 \in Int /\ Len(toWrite) \in Int /\ Len(toWrite) < written + 1
      BY <1>2, <2>1
    <3> QED
      BY <3>1, SubSeqEmpty DEF Rest
  <2>3. Rest' = <<>>
    <3>1. (toWrite' = <<>> /\ written' = 0) \/ UNCHANGED <<toWrite, written>>
      BY <1>14 DEF BackendRecycle
    <3>2. CASE toWrite' = <<>> /\ written' = 0
      <4>1. Len(toWrite') = 0 /\ written' + 1 = 1
        BY <3>2
      <4> QED
        BY <4>1, SubSeqEmpty DEF Rest
    <3>3. CASE UNCHANGED <<toWrite, written>>
      BY <2>2, <3>3 DEF Rest
    <3> QED
      BY <3>1, <3>2, <3>3
  <2>4. Held' = File' \o (Rest' \o (vec' \o current')) /\ File' = File
    BY <2>1 DEF Held, File, Rest
  <2> QED
    BY <1>1, <1>3, <2>1, <2>2, <2>3, <2>4
<1>15. CASE UNCHANGED vars
  BY <1>3, <1>15 DEF vars, Held
<1> QED
  BY <1>6, <1>7, <1>8, <1>10, <1>11, <1>12, <1>13, <1>14, <1>15 DEF Next, BackendStep

(* LostInv says more than NothingLost.                                     *)
LEMMA LostInvImplies == LostInv => NothingLost
<1> SUFFICES ASSUME LostInv PROVE NothingLost
  OBVIOUS
<1>1. IsPtr(current) /\ ~Null(current)
  <2>1. current \in Seq(Buffer) /\ Len(current) = 1
    BY DEF LostInv, AssertInv, BuffersOK
  <2>2. current # <<>>
    BY <2>1, OnePtr
  <2> QED
    BY <2>1, <2>2 DEF IsPtr, Null
<1>2. \A ptr \in {<<>>, <<EmptyBuffer>>} : IsPtr(ptr)
  <2>1. <<>> \in Seq(Buffer) /\ Len(<<>>) <= 1
    BY EmptySeq
  <2>2. <<EmptyBuffer>> \in Seq(Buffer) /\ Len(<<EmptyBuffer>>) <= 1
    BY EmptyIsBuffer, OneElement
  <2> QED
    BY <2>1, <2>2 DEF IsPtr
<1>3. dropped \subseteq Lines
  BY AsyncLogAssumption DEF LostInv, WriterOK, Lines
<1>4. TypeOK
  BY <1>1, <1>2, <1>3 DEF LostInv, AssertInv, BuffersOK, WriterOK, TypeOK, PCs
<1> QED
  BY <1>4 DEF LostInv, LinesOK, NothingLost

(* No line is lost, duplicated or put out of order on its way from         *)
(* append() to the file, whatever threads append, whenever the backend     *)
(* wakes up, and however large the buffers and the batch limit are.        *)
THEOREM NoLineIsLost == Spec => []NothingLost
<1>1. Init => LostInv
  <2> SUFFICES ASSUME Init PROVE LostInv
    OBVIOUS
  <2>1. AssertInv
    BY EmptyIsBuffer, OneElement, EmptySeq DEF Init, AssertInv, BuffersOK, SparesOK, NextOK, PCs
  <2>2. WriterOK
    <3>1. file \in Seq(Lines) /\ Len(toWrite) = 0
      BY EmptySeq DEF Init
    <3>2. written \in 0 .. Len(toWrite) /\ numLines \in 0 .. MaxLines
      BY <3>1, AsyncLogAssumption DEF Init
    <3> QED
      BY <3>1, <3>2 DEF Init, WriterOK
  <2>3. Held = <<EmptyBuffer>> \o <<EmptyBuffer>>
    <3>1. [lines |-> file, used |-> 0] = EmptyBuffer
      BY DEF Init, EmptyBuffer
    <3>2. SubSeq(toWrite, written + 1, Len(toWrite)) = <<>>
      BY SubSeqEmpty DEF Init
    <3>3. <<EmptyBuffer>> \in Seq(Buffer) /\ <<>> \o <<EmptyBuffer>> = <<EmptyBuffer>>
      BY EmptyIsBuffer, OneElement, ConcatEmptySeq
    <3> QED
      BY <3>1, <3>2, <3>3 DEF Held, Init
  <2>4. /\ InOrder(<<EmptyBuffer>> \o <<EmptyBuffer>>)
        /\ LinesOf(<<EmptyBuffer>> \o <<EmptyBuffer>>, 1) = {}
    BY EmptyIsBuffer, OneElement, EmptyHolds, AddEmpty
  <2>5. (1 .. numLines) \ dropped = {}
    BY DEF Init
  <2> QED
    BY <2>1, <2>2, <2>3, <2>4, <2>5 DEF LostInv, LinesOK
<1>2. LostInv /\ [Next]_vars => LostInv'
  <2> SUFFICES ASSUME LostInv, [Next]_vars PROVE LostInv'
    OBVIOUS
  <2>1. AssertInv'
    BY AssertStep DEF LostInv, WriterOK
  <2>2. WriterOK'
    BY WriterStep
  <2>3. LinesOK'
    BY <2>1, <2>2, LinesStep
  <2> QED
    BY <2>1, <2>2, <2>3 DEF LostInv
<1> QED
  BY <1>1, <1>2, LostInvImplies, PTL DEF Spec

===============================================================================
