----------------------------- MODULE BufferProofs -----------------------------
(***************************************************************************)
(* Proofs about Buffer for any sizes, chunks and bytes: it implements      *)
(* ByteQueue, and its vector grows only when it has to.                    *)
(***************************************************************************)
EXTENDS Buffer, SequenceTheorems, TLAPS

(* The indices are in their order and inside the vector, and the vector    *)
(* has the room that retrieveAll() puts in front of them.                  *)
Valid(b) ==
    /\ b \in Buffers
    /\ b.readerIndex <= b.writerIndex
    /\ b.writerIndex <= Len(b.bytes)
    /\ KCheapPrepend <= Len(b.bytes)

IInv == Valid(buffer) /\ call.data \in Seq(Byte)

(* Buffer b is a valid one that holds q.                                   *)
Holds(b, q) == Valid(b) /\ Content(b) = q

-------------------------------------------------------------------------------
(* Bytes.                                                                  *)

LEMMA FunctionIsSeq ==
    ASSUME NEW n \in Nat, NEW f \in [1 .. n -> Byte]
    PROVE  f \in Seq(Byte) /\ Len(f) = n
  OBVIOUS

LEMMA ContentFields ==
    ASSUME NEW b, Valid(b)
    PROVE  /\ Content(b) \in Seq(Byte)
           /\ Len(Content(b)) = b.writerIndex - b.readerIndex
           /\ \A i \in 1 .. b.writerIndex - b.readerIndex :
                  Content(b)[i] = b.bytes[b.readerIndex + i]
<1> DEFINE B == b.bytes
           r == b.readerIndex
           w == b.writerIndex
<1>1. B \in Seq(Byte) /\ r \in Nat /\ w \in Nat /\ r <= w /\ w <= Len(B)
  BY DEF Valid, Buffers
<1>2. Content(b) = SubSeq(B, r + 1, w)
  BY DEF Content
<1> HIDE DEF B, r, w
<1>3. \A i \in r + 1 .. w : B[i] \in Byte
  <2> TAKE i \in r + 1 .. w
  <2>1. i \in 1 .. Len(B)
    BY <1>1
  <2> QED
    BY <1>1, <2>1, ElementOfSeq
<1>4. /\ SubSeq(B, r + 1, w) \in Seq(Byte)
      /\ Len(SubSeq(B, r + 1, w)) = IF r + 1 <= w THEN w - (r + 1) + 1 ELSE 0
      /\ \A i \in 1 .. w - (r + 1) + 1 : SubSeq(B, r + 1, w)[i] = B[(r + 1) + i - 1]
  <2>1. r + 1 \in Int /\ w \in Int
    BY <1>1
  <2> QED
    BY <1>3, <2>1, SubSeqProperties
<1>5. Len(Content(b)) = w - r
  BY <1>1, <1>2, <1>4
<1>6. \A i \in 1 .. w - r : Content(b)[i] = B[r + i]
  <2> TAKE i \in 1 .. w - r
  <2>1. i \in 1 .. w - (r + 1) + 1 /\ (r + 1) + i - 1 = r + i
    BY <1>1
  <2> QED
    BY <1>2, <1>4, <2>1
<1> QED
  BY <1>2, <1>4, <1>5, <1>6 DEF B, r, w

LEMMA ContentIs ==
    ASSUME NEW b, Valid(b), NEW q \in Seq(Byte),
           Len(q) = b.writerIndex - b.readerIndex,
           \A i \in 1 .. Len(q) : b.bytes[b.readerIndex + i] = q[i]
    PROVE  Holds(b, q)
<1>1. /\ Content(b) \in Seq(Byte) /\ Len(Content(b)) = Len(q)
      /\ \A i \in 1 .. Len(q) : Content(b)[i] = q[i]
  BY ContentFields
<1>2. Content(b) = q
  BY <1>1, SeqEqual
<1> QED
  BY <1>2 DEF Holds

LEMMA CopyFields ==
    ASSUME NEW B \in Seq(Byte), NEW pos \in Nat, NEW data \in Seq(Byte)
    PROVE  /\ Copy(B, pos, data) \in Seq(Byte)
           /\ Len(Copy(B, pos, data)) = Len(B)
           /\ \A i \in 1 .. Len(B) : Copy(B, pos, data)[i] =
                  IF pos < i /\ i <= pos + Len(data) THEN data[i - pos] ELSE B[i]
<1> DEFINE e(i) == IF pos < i /\ i <= pos + Len(data) THEN data[i - pos] ELSE B[i]
           C    == [i \in 1 .. Len(B) |-> e(i)]
<1>1. Len(B) \in Nat /\ Len(data) \in Nat
  OBVIOUS
<1>2. \A i \in 1 .. Len(B) : e(i) \in Byte
  <2> TAKE i \in 1 .. Len(B)
  <2>1. CASE pos < i /\ i <= pos + Len(data)
    <3>1. i - pos \in 1 .. Len(data)
      BY <1>1, <2>1
    <3> QED
      BY <2>1, <3>1, ElementOfSeq
  <2>2. CASE ~(pos < i /\ i <= pos + Len(data))
    BY <2>2, ElementOfSeq
  <2> QED
    BY <2>1, <2>2
<1>3. Copy(B, pos, data) = C
  BY DEF Copy
<1> HIDE DEF e
<1>4. C \in [1 .. Len(B) -> Byte]
  BY <1>2
<1>5. C \in Seq(Byte) /\ Len(C) = Len(B)
  BY <1>1, <1>4, FunctionIsSeq
<1>6. \A i \in 1 .. Len(B) : C[i] = e(i)
  OBVIOUS
<1> QED
  BY <1>3, <1>5, <1>6 DEF e

(* resize() of the vector.                                                 *)
Resize(B, n) == [i \in 1 .. n |-> IF i <= Len(B) THEN B[i] ELSE 0]

LEMMA ResizeFields ==
    ASSUME NEW B \in Seq(Byte), NEW n \in Nat, Len(B) <= n
    PROVE  /\ Resize(B, n) \in Seq(Byte)
           /\ Len(Resize(B, n)) = n
           /\ \A i \in 1 .. Len(B) : Resize(B, n)[i] = B[i]
<1>1. Len(B) \in Nat
  OBVIOUS
<1>2. \A i \in 1 .. n : (IF i <= Len(B) THEN B[i] ELSE 0) \in Byte
  BY <1>1, ElementOfSeq, BufferAssumption
<1>3. Resize(B, n) \in [1 .. n -> Byte]
  BY <1>2 DEF Resize
<1>4. \A i \in 1 .. Len(B) : Resize(B, n)[i] = B[i]
  BY <1>1 DEF Resize
<1> QED
  BY <1>3, <1>4, FunctionIsSeq

-------------------------------------------------------------------------------
(* The member functions.  q is the content, and "full" says that the       *)
(* vector cannot hold len more bytes with the room for prepend().          *)

Full(b, len) == ReadableBytes(b) + len + KCheapPrepend > Len(b.bytes)

LEMMA HoldsFields ==
    ASSUME NEW b, NEW q, Holds(b, q)
    PROVE  /\ b.bytes \in Seq(Byte) /\ Len(b.bytes) \in Nat
           /\ b.readerIndex \in Nat /\ b.writerIndex \in Nat
           /\ b.readerIndex <= b.writerIndex /\ b.writerIndex <= Len(b.bytes)
           /\ KCheapPrepend \in Nat /\ KCheapPrepend <= Len(b.bytes)
           /\ b = [bytes |-> b.bytes, readerIndex |-> b.readerIndex,
                   writerIndex |-> b.writerIndex]
           /\ q \in Seq(Byte) /\ Len(q) \in Nat
           /\ Len(q) = b.writerIndex - b.readerIndex
           /\ \A i \in 1 .. Len(q) : b.bytes[b.readerIndex + i] = q[i]
<1>1. Valid(b) /\ Content(b) = q
  BY DEF Holds
<1>2. b.bytes \in Seq(Byte) /\ b.readerIndex \in Nat /\ b.writerIndex \in Nat
      /\ b = [bytes |-> b.bytes, readerIndex |-> b.readerIndex, writerIndex |-> b.writerIndex]
  BY <1>1 DEF Valid, Buffers
<1>3. q \in Seq(Byte) /\ Len(q) = b.writerIndex - b.readerIndex
      /\ \A i \in 1 .. b.writerIndex - b.readerIndex : q[i] = b.bytes[b.readerIndex + i]
  BY <1>1, ContentFields
<1> QED
  BY <1>1, <1>2, <1>3, BufferAssumption DEF Valid

LEMMA MakeHolds ==
    ASSUME NEW B \in Seq(Byte), NEW r \in Nat, NEW w \in Nat, r <= w, w <= Len(B),
           KCheapPrepend <= Len(B), NEW q \in Seq(Byte), Len(q) = w - r,
           \A i \in 1 .. Len(q) : B[r + i] = q[i]
    PROVE  Holds([bytes |-> B, readerIndex |-> r, writerIndex |-> w], q)
<1> DEFINE b == [bytes |-> B, readerIndex |-> r, writerIndex |-> w]
<1>1. b.bytes = B /\ b.readerIndex = r /\ b.writerIndex = w
  OBVIOUS
<1>2. Valid(b)
  BY DEF Valid, Buffers
<1> HIDE DEF b
<1>3. Holds(b, q)
  BY <1>1, <1>2, ContentIs
<1> QED
  BY <1>3 DEF b

LEMMA MakeSpaceStep ==
    ASSUME NEW b, NEW q, Holds(b, q), NEW len \in Nat, WritableBytes(b) < len,
           NEW e, e = MakeSpace(b, len)
    PROVE  /\ Holds(e, q)
           /\ WritableBytes(e) >= len
           /\ Len(e.bytes) > Len(b.bytes) => Full(b, len)
<1> DEFINE B == b.bytes
           r == b.readerIndex
           w == b.writerIndex
           K == KCheapPrepend
<1>1. /\ B \in Seq(Byte) /\ Len(B) \in Nat /\ r \in Nat /\ w \in Nat /\ r <= w /\ w <= Len(B)
      /\ K \in Nat /\ K <= Len(B) /\ q \in Seq(Byte) /\ Len(q) \in Nat /\ Len(q) = w - r
      /\ \A i \in 1 .. Len(q) : B[r + i] = q[i]
      /\ b = [bytes |-> B, readerIndex |-> r, writerIndex |-> w]
  BY HoldsFields
<1>2. Len(B) - w < len
  BY DEF WritableBytes
<1>3. Content(b) = q
  BY DEF Holds
<1> DEFINE C == Resize(B, w + len)
           D == Copy(B, K, q)
<1>4. e = IF Len(B) - w + r < len + K
             THEN [bytes |-> C, readerIndex |-> r, writerIndex |-> w]
             ELSE [bytes |-> D, readerIndex |-> K, writerIndex |-> K + (w - r)]
  <2>1. \A x : [b EXCEPT !.bytes = x] = [bytes |-> x, readerIndex |-> r, writerIndex |-> w]
    BY DEF Holds, Valid, Buffers
  <2> QED
    BY <1>3, <2>1 DEF MakeSpace, Resize, WritableBytes, PrependableBytes, ReadableBytes
<1>5. Full(b, len) <=> w - r + len + K > Len(B)
  BY DEF Full, ReadableBytes
<1> HIDE DEF B, r, w, K
<1>6. CASE Len(B) - w + r < len + K
  <2>1. C \in Seq(Byte) /\ Len(C) = w + len /\ \A i \in 1 .. Len(B) : C[i] = B[i]
    <3>1. w + len \in Nat /\ Len(B) <= w + len
      BY <1>1, <1>2
    <3> QED
      BY <1>1, <3>1, ResizeFields
  <2> HIDE DEF C
  <2>2. \A i \in 1 .. Len(q) : C[r + i] = q[i]
    <3> TAKE i \in 1 .. Len(q)
    <3>1. r + i \in 1 .. Len(B)
      BY <1>1
    <3> QED
      BY <1>1, <2>1, <3>1
  <2>3. Holds([bytes |-> C, readerIndex |-> r, writerIndex |-> w], q)
    <3>1. w <= Len(C) /\ KCheapPrepend <= Len(C)
      BY <1>1, <1>2, <2>1 DEF K
    <3> QED
      BY <1>1, <2>1, <2>2, <3>1, MakeHolds, Zenon
  <2>4. e = [bytes |-> C, readerIndex |-> r, writerIndex |-> w]
    BY <1>4, <1>6
  <2>5. WritableBytes(e) = len
    BY <1>1, <2>1, <2>4 DEF WritableBytes
  <2> QED
    BY <1>1, <1>5, <1>6, <2>3, <2>4, <2>5
<1>7. CASE Len(B) - w + r >= len + K
  <2>1. D \in Seq(Byte) /\ Len(D) = Len(B)
        /\ \A i \in 1 .. Len(B) : D[i] = IF K < i /\ i <= K + Len(q) THEN q[i - K] ELSE B[i]
    BY <1>1, CopyFields
  <2> HIDE DEF D
  <2>2. \A i \in 1 .. Len(q) : D[K + i] = q[i]
    <3> TAKE i \in 1 .. Len(q)
    <3>1. PICK m \in 1 .. Len(B) : m = K + i
      BY <1>1, <1>7
    <3>2. K < m /\ m <= K + Len(q) /\ m - K = i
      BY <1>1, <3>1
    <3>3. D[m] = q[m - K]
      BY <2>1, <3>2
    <3> QED
      BY <3>1, <3>2, <3>3
  <2>3. K + (w - r) \in Nat /\ K <= K + (w - r) /\ K + (w - r) <= Len(B)
        /\ K + (w - r) - K = w - r
    BY <1>1, <1>7
  <2>4. Holds([bytes |-> D, readerIndex |-> K, writerIndex |-> K + (w - r)], q)
    <3> DEFINE v == K + (w - r)
    <3>1. v \in Nat /\ K <= v /\ v <= Len(D) /\ KCheapPrepend <= Len(D) /\ Len(q) = v - K
      BY <1>1, <2>1, <2>3 DEF K
    <3> HIDE DEF v
    <3>2. Holds([bytes |-> D, readerIndex |-> K, writerIndex |-> v], q)
      BY <1>1, <2>1, <2>2, <3>1, MakeHolds, Zenon
    <3> QED
      BY <3>2 DEF v
  <2>5. e = [bytes |-> D, readerIndex |-> K, writerIndex |-> K + (w - r)]
    BY <1>1, <1>4, <1>7
  <2>6. WritableBytes(e) = Len(B) - (K + (w - r)) /\ e.bytes = D
    BY <2>1, <2>5 DEF WritableBytes
  <2> QED
    BY <1>1, <1>7, <2>1, <2>4, <2>5, <2>6 DEF B
<1> QED
  BY <1>1, <1>6, <1>7

LEMMA EnsureWritableStep ==
    ASSUME NEW b, NEW q, Holds(b, q), NEW len \in Nat, NEW e, e = EnsureWritable(b, len)
    PROVE  /\ Holds(e, q)
           /\ WritableBytes(e) >= len
           /\ Len(e.bytes) > Len(b.bytes) => Full(b, len)
<1>1. CASE WritableBytes(b) < len
  BY <1>1, MakeSpaceStep DEF EnsureWritable
<1>2. CASE ~(WritableBytes(b) < len)
  <2>1. e = b
    BY <1>2 DEF EnsureWritable
  <2>2. WritableBytes(b) \in Int /\ Len(b.bytes) \in Nat
    BY HoldsFields DEF WritableBytes
  <2> QED
    BY <1>2, <2>1, <2>2
<1> QED
  BY <1>1, <1>2

(* Bytes written behind beginWrite() and taken over by hasWritten().       *)
LEMMA WriteStep ==
    ASSUME NEW b, NEW q, Holds(b, q), NEW data \in Seq(Byte), Len(data) <= WritableBytes(b),
           NEW t, t = HasWritten([b EXCEPT !.bytes = Copy(b.bytes, b.writerIndex, data)],
                                 Len(data))
    PROVE  Holds(t, q \o data) /\ Len(t.bytes) = Len(b.bytes)
<1> DEFINE B == b.bytes
           r == b.readerIndex
           w == b.writerIndex
           n == Len(data)
           D == Copy(B, w, data)
<1>1. /\ B \in Seq(Byte) /\ Len(B) \in Nat /\ r \in Nat /\ w \in Nat /\ r <= w /\ w <= Len(B)
      /\ KCheapPrepend <= Len(B) /\ q \in Seq(Byte) /\ Len(q) \in Nat /\ Len(q) = w - r
      /\ \A i \in 1 .. Len(q) : B[r + i] = q[i]
      /\ b = [bytes |-> B, readerIndex |-> r, writerIndex |-> w]
  BY HoldsFields
<1>2. n \in Nat /\ w + n <= Len(B)
  BY <1>1 DEF WritableBytes
<1>3. t = [bytes |-> D, readerIndex |-> r, writerIndex |-> w + n]
  BY <1>1 DEF HasWritten
<1> HIDE DEF B, r, w, n
<1>4. D \in Seq(Byte) /\ Len(D) = Len(B)
      /\ \A i \in 1 .. Len(B) : D[i] = IF w < i /\ i <= w + n THEN data[i - w] ELSE B[i]
  BY <1>1, CopyFields DEF n
<1> HIDE DEF D
<1>5. /\ q \o data \in Seq(Byte) /\ Len(q \o data) = Len(q) + n
      /\ \A i \in 1 .. Len(q) + n : (q \o data)[i] = IF i <= Len(q) THEN q[i] ELSE data[i - Len(q)]
  BY <1>1, ConcatProperties DEF n
<1>6. \A i \in 1 .. Len(q) + n : D[r + i] = (q \o data)[i]
  <2> TAKE i \in 1 .. Len(q) + n
  <2>0. r + i \in 1 .. Len(B)
    BY <1>1, <1>2
  <2>1. CASE i <= Len(q)
    <3>1. i \in 1 .. Len(q) /\ ~(w < r + i)
      BY <1>1, <1>2, <2>1
    <3>2. D[r + i] = B[r + i] /\ B[r + i] = q[i]
      BY <1>1, <1>4, <2>0, <3>1
    <3>3. (q \o data)[i] = q[i]
      BY <1>5, <2>1
    <3> QED
      BY <3>2, <3>3
  <2>2. CASE i > Len(q)
    <3>1. w < r + i /\ r + i <= w + n /\ r + i - w = i - Len(q) /\ ~(i <= Len(q))
      BY <1>1, <1>2, <2>2
    <3>2. PICK m \in 1 .. Len(B) : m = r + i
      BY <2>0
    <3>3. w < m /\ m <= w + n /\ m - w = i - Len(q)
      BY <1>1, <1>2, <3>1, <3>2
    <3>4. D[m] = data[m - w]
      BY <1>4, <3>3
    <3>5. (q \o data)[i] = data[i - Len(q)]
      BY <1>5, <3>1
    <3> QED
      BY <3>2, <3>3, <3>4, <3>5
  <2>3. i <= Len(q) \/ i > Len(q)
    BY <1>1, <1>2
  <2> QED
    BY <2>1, <2>2, <2>3
<1>7. w + n \in Nat /\ r <= w + n /\ w + n - r = Len(q) + n
  BY <1>1, <1>2
<1>8. Holds([bytes |-> D, readerIndex |-> r, writerIndex |-> w + n], q \o data)
  <2> DEFINE v  == w + n
             qd == q \o data
  <2>1. v \in Nat /\ r <= v /\ v <= Len(D) /\ KCheapPrepend <= Len(D)
        /\ qd \in Seq(Byte) /\ Len(qd) = v - r
    BY <1>1, <1>2, <1>4, <1>5, <1>7
  <2>2. \A i \in 1 .. Len(qd) : D[r + i] = qd[i]
    BY <1>5, <1>6
  <2> HIDE DEF v, qd
  <2>3. Holds([bytes |-> D, readerIndex |-> r, writerIndex |-> v], qd)
    <3>1. D \in Seq(Byte) /\ r \in Nat
      BY <1>1, <1>4
    <3> QED
      BY <2>1, <2>2, <3>1, MakeHolds
  <2> QED
    BY <2>3 DEF v, qd
<1> QED
  BY <1>3, <1>4, <1>8 DEF B

LEMMA AppendStep ==
    ASSUME NEW b, NEW q, Holds(b, q), NEW data \in Seq(Byte), NEW t, t = AppendTo(b, data)
    PROVE  /\ Holds(t, q \o data)
           /\ Len(t.bytes) > Len(b.bytes) => Full(b, Len(data))
<1> DEFINE e == EnsureWritable(b, Len(data))
<1>1. /\ Holds(e, q) /\ WritableBytes(e) >= Len(data)
      /\ Len(e.bytes) > Len(b.bytes) => Full(b, Len(data))
  <2>1. Len(data) \in Nat
    OBVIOUS
  <2> QED
    BY <2>1, EnsureWritableStep
<1>2. t = HasWritten([e EXCEPT !.bytes = Copy(e.bytes, e.writerIndex, data)], Len(data))
  BY DEF AppendTo
<1> HIDE DEF e
<1>3. WritableBytes(e) \in Int /\ Len(data) \in Nat
  BY <1>1, HoldsFields DEF WritableBytes
<1>4. Len(data) <= WritableBytes(e)
  BY <1>1, <1>3
<1>5. Holds(t, q \o data) /\ Len(t.bytes) = Len(e.bytes)
  BY <1>1, <1>2, <1>4, WriteStep
<1> QED
  BY <1>1, <1>5

LEMMA Split ==
    ASSUME NEW q \in Seq(Byte), NEW k \in 0 .. Len(q)
    PROVE  /\ SubSeq(q, 1, k) \in Seq(Byte) /\ Len(SubSeq(q, 1, k)) = k
           /\ \A i \in 1 .. k : SubSeq(q, 1, k)[i] = q[i]
           /\ SubSeq(q, k + 1, Len(q)) \in Seq(Byte)
           /\ Len(SubSeq(q, k + 1, Len(q))) = Len(q) - k
           /\ \A i \in 1 .. Len(q) - k : SubSeq(q, k + 1, Len(q))[i] = q[k + i]
           /\ q = SubSeq(q, 1, k) \o SubSeq(q, k + 1, Len(q))
<1> DEFINE n == Len(q)
           x == SubSeq(q, 1, k)
           y == SubSeq(q, k + 1, n)
<1>1. n \in Nat /\ k \in Nat /\ k <= n
  OBVIOUS
<1>2. \A i \in 1 .. n : q[i] \in Byte
  BY ElementOfSeq
<1> HIDE DEF n
<1>3. /\ x \in Seq(Byte) /\ Len(x) = IF 1 <= k THEN k - 1 + 1 ELSE 0
      /\ \A i \in 1 .. k - 1 + 1 : x[i] = q[1 + i - 1]
  <2>1. \A i \in 1 .. k : q[i] \in Byte
    BY <1>1, <1>2
  <2>2. 1 \in Int /\ k \in Int
    BY <1>1
  <2> QED
    BY <2>1, <2>2, SubSeqProperties
<1>4. /\ y \in Seq(Byte) /\ Len(y) = IF k + 1 <= n THEN n - (k + 1) + 1 ELSE 0
      /\ \A i \in 1 .. n - (k + 1) + 1 : y[i] = q[(k + 1) + i - 1]
  <2>1. \A i \in k + 1 .. n : q[i] \in Byte
    BY <1>1, <1>2
  <2>2. k + 1 \in Int /\ n \in Int
    BY <1>1
  <2> QED
    BY <2>1, <2>2, SubSeqProperties
<1> HIDE DEF x, y
<1>5. Len(x) = k /\ Len(y) = n - k
  BY <1>1, <1>3, <1>4
<1>6. \A i \in 1 .. k : x[i] = q[i]
  <2> TAKE i \in 1 .. k
  <2>1. i \in 1 .. k - 1 + 1 /\ 1 + i - 1 = i
    BY <1>1
  <2> QED
    BY <1>3, <2>1
<1>7. \A i \in 1 .. n - k : y[i] = q[k + i]
  <2> TAKE i \in 1 .. n - k
  <2>1. i \in 1 .. n - (k + 1) + 1 /\ (k + 1) + i - 1 = k + i
    BY <1>1
  <2> QED
    BY <1>4, <2>1
<1>8. q = x \o y
  <2>1. 1 \in 1 .. n + 1 /\ k \in 1 - 1 .. n /\ n \in k .. n
    BY <1>1
  <2>2. SubSeq(q, 1, k) \o SubSeq(q, k + 1, n) = SubSeq(q, 1, n)
    BY <2>1, ConcatAdjacentSubSeq DEF n
  <2>3. SubSeq(q, 1, n) = q
    BY SubSeqFull DEF n
  <2> QED
    BY <2>2, <2>3 DEF x, y
<1> QED
  BY <1>3, <1>4, <1>5, <1>6, <1>7, <1>8 DEF n, x, y

LEMMA RetrieveStep ==
    ASSUME NEW b, NEW q, Holds(b, q), NEW len \in 0 .. Len(q), NEW t, t = RetrieveFrom(b, len)
    PROVE  Holds(t, SubSeq(q, len + 1, Len(q)))
<1> DEFINE B == b.bytes
           r == b.readerIndex
           w == b.writerIndex
           K == KCheapPrepend
           y == SubSeq(q, len + 1, Len(q))
<1>1. /\ B \in Seq(Byte) /\ Len(B) \in Nat /\ r \in Nat /\ w \in Nat /\ r <= w /\ w <= Len(B)
      /\ K \in Nat /\ K <= Len(B) /\ q \in Seq(Byte) /\ Len(q) \in Nat /\ Len(q) = w - r
      /\ \A i \in 1 .. Len(q) : B[r + i] = q[i]
  BY HoldsFields
<1>2. y \in Seq(Byte) /\ Len(y) = Len(q) - len /\ \A i \in 1 .. Len(q) - len : y[i] = q[len + i]
  BY <1>1, Split
<1>3. t = IF len < w - r THEN [bytes |-> B, readerIndex |-> r + len, writerIndex |-> w]
                         ELSE [bytes |-> B, readerIndex |-> K, writerIndex |-> K]
  <2>1. b \in [bytes : Seq(Byte), readerIndex : Nat, writerIndex : Nat]
    BY DEF Holds, Valid, Buffers
  <2>2. \A u : [b EXCEPT !.readerIndex = u] = [bytes |-> B, readerIndex |-> u, writerIndex |-> w]
    BY <2>1
  <2>3. [b EXCEPT !.readerIndex = K, !.writerIndex = K] =
            [bytes |-> B, readerIndex |-> K, writerIndex |-> K]
    <3>1. [b EXCEPT !.readerIndex = K, !.writerIndex = K] =
              [[b EXCEPT !.readerIndex = K] EXCEPT !.writerIndex = K]
      BY Zenon
    <3>2. [[bytes |-> B, readerIndex |-> K, writerIndex |-> w] EXCEPT !.writerIndex = K] =
              [bytes |-> B, readerIndex |-> K, writerIndex |-> K]
      OBVIOUS
    <3>3. [b EXCEPT !.readerIndex = K] = [bytes |-> B, readerIndex |-> K, writerIndex |-> w]
      BY <2>2, Zenon
    <3> QED
      BY <3>1, <3>2, <3>3, Zenon
  <2> QED
    BY <2>2, <2>3 DEF RetrieveFrom, ReadableBytes
<1> HIDE DEF B, r, w, y
<1>4. CASE len < w - r
  <2> DEFINE u == r + len
  <2>1. u \in Nat /\ u <= w /\ Len(y) = w - u
    BY <1>1, <1>2, <1>4
  <2>2. \A i \in 1 .. Len(y) : B[u + i] = y[i]
    <3> TAKE i \in 1 .. Len(y)
    <3>1. PICK m \in 1 .. Len(q) : m = len + i
      BY <1>1, <1>2
    <3>2. u + i = r + m /\ i \in 1 .. Len(q) - len
      BY <1>1, <1>2, <3>1
    <3> QED
      BY <1>1, <1>2, <3>1, <3>2
  <2> HIDE DEF u
  <2>3. Holds([bytes |-> B, readerIndex |-> u, writerIndex |-> w], y)
    BY <1>1, <1>2, <2>1, <2>2, MakeHolds, Zenon
  <2> QED
    BY <1>3, <1>4, <2>3 DEF u, y
<1>5. CASE ~(len < w - r)
  <2>1. K <= K /\ Len(y) = K - K /\ \A i \in 1 .. Len(y) : B[K + i] = y[i]
    BY <1>1, <1>2, <1>5
  <2>2. Holds([bytes |-> B, readerIndex |-> K, writerIndex |-> K], y)
    BY <1>1, <1>2, <2>1, MakeHolds, Zenon
  <2> QED
    BY <1>3, <1>5, <2>2 DEF y
<1> QED
  BY <1>4, <1>5

LEMMA UnwriteStep ==
    ASSUME NEW b, NEW q, Holds(b, q), NEW len \in 0 .. Len(q),
           NEW t, t = [b EXCEPT !.writerIndex = b.writerIndex - len]
    PROVE  Holds(t, SubSeq(q, 1, Len(q) - len))
<1> DEFINE B == b.bytes
           r == b.readerIndex
           w == b.writerIndex
           k == Len(q) - len
           v == w - len
           x == SubSeq(q, 1, k)
<1>1. /\ B \in Seq(Byte) /\ Len(B) \in Nat /\ r \in Nat /\ w \in Nat /\ r <= w /\ w <= Len(B)
      /\ KCheapPrepend <= Len(B) /\ q \in Seq(Byte) /\ Len(q) \in Nat /\ Len(q) = w - r
      /\ \A i \in 1 .. Len(q) : B[r + i] = q[i]
  BY HoldsFields
<1>2. t = [bytes |-> B, readerIndex |-> r, writerIndex |-> v]
  BY DEF Holds, Valid, Buffers
<1> HIDE DEF B, r, w
<1>3. k \in 0 .. Len(q) /\ v \in Nat /\ r <= v /\ v <= Len(B) /\ k = v - r
  BY <1>1
<1>4. x \in Seq(Byte) /\ Len(x) = k /\ \A i \in 1 .. k : x[i] = q[i]
  BY <1>1, <1>3, Split
<1>5. \A i \in 1 .. Len(x) : B[r + i] = x[i]
  <2> TAKE i \in 1 .. Len(x)
  <2>1. i \in 1 .. k /\ i \in 1 .. Len(q)
    BY <1>1, <1>3, <1>4, SMTT(20)
  <2> QED
    BY <1>1, <1>4, <2>1
<1> HIDE DEF k, v, x
<1>6. Len(x) = v - r
  BY <1>3, <1>4
<1>7. Holds([bytes |-> B, readerIndex |-> r, writerIndex |-> v], x)
  BY <1>1, <1>3, <1>4, <1>5, <1>6, MakeHolds, Zenon
<1> QED
  BY <1>2, <1>7 DEF x, k

LEMMA PrependStep ==
    ASSUME NEW b, NEW q, Holds(b, q), NEW data \in Seq(Byte), Len(data) <= b.readerIndex,
           NEW t, t = [bytes |-> Copy(b.bytes, b.readerIndex - Len(data), data),
                       readerIndex |-> b.readerIndex - Len(data),
                       writerIndex |-> b.writerIndex]
    PROVE  Holds(t, data \o q)
<1> DEFINE B == b.bytes
           r == b.readerIndex
           w == b.writerIndex
           n == Len(data)
           u == r - n
           D == Copy(B, u, data)
           qd == data \o q
<1>1. /\ B \in Seq(Byte) /\ Len(B) \in Nat /\ r \in Nat /\ w \in Nat /\ r <= w /\ w <= Len(B)
      /\ KCheapPrepend <= Len(B) /\ q \in Seq(Byte) /\ Len(q) \in Nat /\ Len(q) = w - r
      /\ \A i \in 1 .. Len(q) : B[r + i] = q[i]
  BY HoldsFields
<1>2. n \in Nat /\ n <= r
  OBVIOUS
<1> HIDE DEF B, r, w, n
<1>3. u \in Nat /\ u <= w /\ u + n = r
  BY <1>1, <1>2
<1>4. D \in Seq(Byte) /\ Len(D) = Len(B)
      /\ \A i \in 1 .. Len(B) : D[i] = IF u < i /\ i <= u + n THEN data[i - u] ELSE B[i]
  BY <1>1, <1>3, CopyFields DEF n
<1>5. /\ qd \in Seq(Byte) /\ Len(qd) = n + Len(q)
      /\ \A i \in 1 .. n + Len(q) : qd[i] = IF i <= n THEN data[i] ELSE q[i - n]
  BY <1>1, ConcatProperties DEF n
<1> HIDE DEF u, D, qd
<1>6. \A i \in 1 .. Len(qd) : D[u + i] = qd[i]
  <2> TAKE i \in 1 .. Len(qd)
  <2>0. i \in 1 .. n + Len(q)
    BY <1>5
  <2>1. PICK m \in 1 .. Len(B) : m = u + i
    BY <1>1, <1>2, <1>3, <2>0
  <2>2. CASE i <= n
    <3>1. u < m /\ m <= u + n /\ m - u = i
      BY <1>1, <1>2, <1>3, <2>0, <2>1, <2>2
    <3>2. D[m] = data[m - u]
      BY <1>4, <3>1
    <3>3. qd[i] = data[i]
      BY <1>5, <2>0, <2>2
    <3> QED
      BY <2>1, <3>1, <3>2, <3>3
  <2>3. CASE ~(i <= n)
    <3>1. PICK k \in 1 .. Len(q) : k = i - n
      BY <1>1, <1>2, <2>0, <2>3
    <3>2. ~(m <= u + n) /\ m = r + k
      BY <1>1, <1>2, <1>3, <2>0, <2>1, <2>3, <3>1
    <3>3. D[m] = B[m] /\ B[r + k] = q[k]
      BY <1>1, <1>4, <3>2
    <3>4. qd[i] = q[i - n]
      BY <1>5, <2>0, <2>3
    <3> QED
      BY <2>1, <3>1, <3>2, <3>3, <3>4
  <2> QED
    BY <2>2, <2>3
<1>7. Len(qd) = w - u /\ w <= Len(D) /\ KCheapPrepend <= Len(D)
  BY <1>1, <1>2, <1>3, <1>4, <1>5
<1>8. Holds([bytes |-> D, readerIndex |-> u, writerIndex |-> w], qd)
  <2>1. D \in Seq(Byte) /\ qd \in Seq(Byte) /\ u \in Nat /\ w \in Nat /\ u <= w
    BY <1>1, <1>3, <1>4, <1>5
  <2> QED
    BY <1>6, <1>7, <2>1, MakeHolds
<1> QED
  BY <1>8 DEF B, r, w, n, u, D, qd

LEMMA ReadInStep ==
    ASSUME NEW b, NEW q, Holds(b, q), NEW data \in Seq(Byte), NEW t, t = ReadIn(b, data)
    PROVE  /\ Holds(t, q \o data)
           /\ Len(t.bytes) > Len(b.bytes) => Full(b, Len(data))
<1> DEFINE n == WritableBytes(b)
<1>1. /\ n \in Nat /\ Len(data) \in Nat /\ Len(b.bytes) \in Nat
      /\ q \in Seq(Byte) /\ Len(q) = ReadableBytes(b) /\ Len(q) \in Nat
  BY HoldsFields DEF WritableBytes, ReadableBytes
<1>2. CASE Len(data) <= n
  <2>1. t = HasWritten([b EXCEPT !.bytes = Copy(b.bytes, b.writerIndex, data)], Len(data))
    BY <1>2 DEF ReadIn
  <2>2. Holds(t, q \o data) /\ Len(t.bytes) = Len(b.bytes)
    BY <1>2, <2>1, WriteStep
  <2> QED
    BY <1>1, <2>2
<1>3. CASE ~(Len(data) <= n)
  <2> DEFINE x == SubSeq(data, 1, n)
             y == SubSeq(data, n + 1, Len(data))
             c == HasWritten([b EXCEPT !.bytes = Copy(b.bytes, b.writerIndex, x)], n)
  <2>0. n \in 0 .. Len(data)
    BY <1>1, <1>3
  <2>1. /\ x \in Seq(Byte) /\ Len(x) = n /\ y \in Seq(Byte) /\ Len(y) = Len(data) - n
        /\ data = x \o y
    BY <2>0, Split
  <2>2. t = AppendTo(c, y)
    BY <1>3 DEF ReadIn
  <2>3. Holds(c, q \o x) /\ Len(c.bytes) = Len(b.bytes)
    <3>1. Len(x) <= WritableBytes(b) /\ c = HasWritten([b EXCEPT !.bytes =
                                               Copy(b.bytes, b.writerIndex, x)], Len(x))
      BY <1>1, <2>1
    <3> HIDE DEF c, x, n
    <3> QED
      BY <2>1, <3>1, WriteStep
  <2> HIDE DEF c, x, y, n
  <2>4. Holds(t, (q \o x) \o y) /\ (Len(t.bytes) > Len(c.bytes) => Full(c, Len(y)))
    BY <2>1, <2>2, <2>3, AppendStep
  <2>5. (q \o x) \o y = q \o data
    <3>1. \A u, v, z \in Seq(Byte) : (u \o v) \o z = u \o (v \o z)
      BY ConcatAssociative
    <3> QED
      BY <1>1, <2>1, <3>1, Zenon
  <2>6. ReadableBytes(c) = Len(q) + n
    <3>1. Len(q \o x) = ReadableBytes(c)
      BY <2>3, HoldsFields DEF ReadableBytes
    <3>2. Len(q \o x) = Len(q) + Len(x)
      BY <1>1, <2>1, ConcatProperties
    <3> QED
      BY <2>1, <3>1, <3>2
  <2>7. Full(c, Len(y)) => Full(b, Len(data))
    BY <1>1, <2>1, <2>3, <2>6, BufferAssumption DEF Full
  <2> QED
    BY <2>3, <2>4, <2>5, <2>7
<1> QED
  BY <1>2, <1>3

LEMMA NewStep == Holds(NewBuffer, <<>>)
<1> DEFINE n == KCheapPrepend + KInitialSize
           B == [i \in 1 .. n |-> 0]
           K == KCheapPrepend
<1>1. n \in Nat /\ K \in Nat /\ K <= n /\ B \in [1 .. n -> Byte]
  BY BufferAssumption
<1>2. NewBuffer = [bytes |-> B, readerIndex |-> K, writerIndex |-> K]
  BY DEF NewBuffer
<1> HIDE DEF n, B
<1>3. B \in Seq(Byte) /\ Len(B) = n
  BY <1>1, FunctionIsSeq
<1>4. /\ K <= K /\ K <= Len(B) /\ <<>> \in Seq(Byte) /\ Len(<<>>) = K - K
      /\ \A i \in 1 .. Len(<<>>) : B[K + i] = <<>>[i]
  BY <1>1, <1>3
<1>5. Holds([bytes |-> B, readerIndex |-> K, writerIndex |-> K], <<>>)
  BY <1>1, <1>3, <1>4, MakeHolds, Zenon
<1> QED
  BY <1>2, <1>5

LEMMA ShrinkStep ==
    ASSUME NEW b, NEW q, Holds(b, q), NEW len \in Nat,
           NEW t, t = AppendTo(EnsureWritable(NewBuffer, ReadableBytes(b) + len), q)
    PROVE  Holds(t, q)
<1> DEFINE e == EnsureWritable(NewBuffer, ReadableBytes(b) + len)
<1>1. q \in Seq(Byte) /\ ReadableBytes(b) + len \in Nat
  BY HoldsFields DEF ReadableBytes
<1>2. Holds(e, <<>>)
  BY <1>1, NewStep, EnsureWritableStep
<1> HIDE DEF e
<1>3. Holds(t, <<>> \o q)
  BY <1>1, <1>2, AppendStep DEF e
<1>4. <<>> \o q = q
  BY <1>1, ConcatEmptySeq
<1> QED
  BY <1>3, <1>4

-------------------------------------------------------------------------------
(* The actions.                                                            *)

(* GrowsOnlyWhenFull of a step.                                            *)
GrowStep ==
    (call'.op = "append" /\ Len(buffer'.bytes) > Len(buffer.bytes)) =>
        ReadableBytes(buffer') + KCheapPrepend > Len(buffer.bytes)

(* What is shown of every step.                                            *)
Steps == IInv' /\ [Queue!Next]_(Queue!vars) /\ GrowStep

LEMMA NowHolds == ASSUME IInv PROVE Holds(buffer, Content(buffer))
  BY DEF IInv, Holds

LEMMA Appended ==
    ASSUME IInv, NEW data \in Seq(Byte), Holds(buffer', Content(buffer) \o data),
           Len(buffer'.bytes) > Len(buffer.bytes) => Full(buffer, Len(data)),
           call' = [op |-> "append", data |-> data]
    PROVE  Steps
<1> DEFINE q == Content(buffer)
<1>1. Valid(buffer') /\ Content(buffer') = q \o data
  BY DEF Holds
<1>2. call'.op = "append" /\ call'.data = data
  OBVIOUS
<1>3. IInv'
  BY <1>1, <1>2 DEF IInv
<1>4. Queue!Append_
  BY <1>1, <1>2 DEF Queue!Append_, Content
<1>5. GrowStep
  <2>1. q \in Seq(Byte) /\ Len(q) = ReadableBytes(buffer) /\ Len(q) \in Nat
        /\ Len(buffer.bytes) \in Nat
    BY NowHolds, HoldsFields DEF ReadableBytes
  <2>2. Len(q \o data) = ReadableBytes(buffer')
    BY HoldsFields DEF ReadableBytes
  <2> HIDE DEF q
  <2>3. Len(q \o data) = Len(q) + Len(data) /\ Len(data) \in Nat
    <3>1. \A x, y \in Seq(Byte) : Len(x \o y) = Len(x) + Len(y) /\ Len(y) \in Nat
      OBVIOUS
    <3> QED
      BY <2>1, <3>1, Zenon
  <2> QED
    BY <2>1, <2>2, <2>3, BufferAssumption DEF GrowStep, Full
<1> QED
  BY <1>3, <1>4, <1>5 DEF Steps, Queue!Next

LEMMA AppendInv ==
    ASSUME IInv, NEW data \in Chunks, Append_(data) \/ WriteInPlace(data) \/ ReadFd(data)
    PROVE  Steps
<1>1. data \in Seq(Byte) /\ Holds(buffer, Content(buffer))
      /\ call' = [op |-> "append", data |-> data]
  BY NowHolds, BufferAssumption DEF Append_, WriteInPlace, ReadFd
<1>2. CASE Append_(data)
  <2>1. buffer' = AppendTo(buffer, data)
    BY <1>2 DEF Append_
  <2> QED
    BY <1>1, <2>1, AppendStep, Appended
<1>3. CASE WriteInPlace(data)
  <2>1. /\ Len(data) <= WritableBytes(buffer)
        /\ buffer' = HasWritten([buffer EXCEPT !.bytes =
                                    Copy(buffer.bytes, buffer.writerIndex, data)], Len(data))
    BY <1>3 DEF WriteInPlace
  <2>2. Holds(buffer', Content(buffer) \o data) /\ Len(buffer'.bytes) = Len(buffer.bytes)
    BY <1>1, <2>1, WriteStep
  <2>3. Len(buffer.bytes) \in Nat
    BY <1>1, HoldsFields
  <2> QED
    BY <1>1, <2>2, <2>3, Appended
<1>4. CASE ReadFd(data)
  <2>1. buffer' = ReadIn(buffer, data)
    BY <1>4 DEF ReadFd
  <2> QED
    BY <1>1, <2>1, ReadInStep, Appended
<1> QED
  BY <1>2, <1>3, <1>4

LEMMA RetrieveInv ==
    ASSUME IInv, NEW len \in 0 .. MaxReadable, Retrieve(len) PROVE Steps
<1> DEFINE q == Content(buffer)
           x == SubSeq(q, 1, len)
           y == SubSeq(q, len + 1, Len(q))
<1>1. Holds(buffer, q) /\ len <= ReadableBytes(buffer) /\ buffer' = RetrieveFrom(buffer, len)
      /\ call' = [op |-> "retrieve", data |-> x]
  BY NowHolds DEF Retrieve
<1>2. q \in Seq(Byte) /\ Len(q) = ReadableBytes(buffer) /\ Len(q) \in Nat
  BY <1>1, HoldsFields DEF ReadableBytes
<1>3. len \in 0 .. Len(q)
  BY <1>1, <1>2, BufferAssumption
<1>4. Holds(buffer', y)
  BY <1>1, <1>3, RetrieveStep
<1>5. x \in Seq(Byte) /\ q = x \o y
  BY <1>2, <1>3, Split
<1> HIDE DEF x, y
<1>6. Valid(buffer') /\ Content(buffer') = y /\ call'.data = x /\ call'.op = "retrieve"
  BY <1>1, <1>4 DEF Holds
<1>7. IInv'
  BY <1>5, <1>6 DEF IInv
<1>8. Queue!Retrieve
  BY <1>5, <1>6 DEF Queue!Retrieve, Content
<1> QED
  BY <1>6, <1>7, <1>8 DEF Steps, GrowStep, Queue!Next

LEMMA UnwriteInv ==
    ASSUME IInv, NEW len \in 0 .. MaxReadable, Unwrite(len) PROVE Steps
<1> DEFINE q == Content(buffer)
           k == Len(q) - len
           x == SubSeq(q, 1, k)
           y == SubSeq(q, k + 1, Len(q))
<1>1. Holds(buffer, q) /\ len <= ReadableBytes(buffer)
      /\ buffer' = [buffer EXCEPT !.writerIndex = buffer.writerIndex - len]
  BY NowHolds DEF Unwrite
<1>2. q \in Seq(Byte) /\ Len(q) = ReadableBytes(buffer) /\ Len(q) \in Nat
  BY <1>1, HoldsFields DEF ReadableBytes
<1>3. len \in 0 .. Len(q) /\ k \in 0 .. Len(q)
  BY <1>1, <1>2, BufferAssumption
<1>4. Holds(buffer', x)
  BY <1>1, <1>3, UnwriteStep
<1>5. y \in Seq(Byte) /\ q = x \o y
  BY <1>2, <1>3, Split
<1>6. call' = [op |-> "unwrite", data |-> y]
  BY <1>2 DEF Unwrite
<1> HIDE DEF x, y
<1>7. Valid(buffer') /\ Content(buffer') = x /\ call'.data = y /\ call'.op = "unwrite"
  BY <1>4, <1>6 DEF Holds
<1>8. IInv'
  BY <1>5, <1>7 DEF IInv
<1>9. Queue!Unwrite
  BY <1>5, <1>7 DEF Queue!Unwrite, Content
<1> QED
  BY <1>7, <1>8, <1>9 DEF Steps, GrowStep, Queue!Next

LEMMA PrependInv ==
    ASSUME IInv, NEW data \in Chunks, Prepend(data) PROVE Steps
<1> DEFINE q == Content(buffer)
           u == buffer.readerIndex - Len(data)
           D == Copy(buffer.bytes, u, data)
<1>1. Holds(buffer, q) /\ Len(data) <= buffer.readerIndex /\ data \in Seq(Byte)
      /\ call' = [op |-> "prepend", data |-> data]
  BY NowHolds, BufferAssumption DEF Prepend, PrependableBytes
<1>2. buffer' = [bytes |-> D, readerIndex |-> u, writerIndex |-> buffer.writerIndex]
  <2>1. buffer' = [buffer EXCEPT !.readerIndex = u, !.bytes = D]
    BY DEF Prepend
  <2> HIDE DEF u, D
  <2>2. [buffer EXCEPT !.readerIndex = u, !.bytes = D] =
            [[buffer EXCEPT !.readerIndex = u] EXCEPT !.bytes = D]
    BY Zenon
  <2>3. [buffer EXCEPT !.readerIndex = u] =
            [bytes |-> buffer.bytes, readerIndex |-> u, writerIndex |-> buffer.writerIndex]
    BY <1>1 DEF Holds, Valid, Buffers
  <2>4. [[bytes |-> buffer.bytes, readerIndex |-> u, writerIndex |-> buffer.writerIndex]
            EXCEPT !.bytes = D] =
            [bytes |-> D, readerIndex |-> u, writerIndex |-> buffer.writerIndex]
    OBVIOUS
  <2> QED
    BY <2>1, <2>2, <2>3, <2>4, Zenon
<1>3. Holds(buffer', data \o q)
  BY <1>1, <1>2, PrependStep
<1>4. Valid(buffer') /\ Content(buffer') = data \o q /\ call'.data = data
      /\ call'.op = "prepend"
  BY <1>1, <1>3 DEF Holds
<1>5. IInv'
  BY <1>1, <1>4 DEF IInv
<1>6. Queue!Prepend
  BY <1>4 DEF Queue!Prepend, Content
<1> QED
  BY <1>4, <1>5, <1>6 DEF Steps, GrowStep, Queue!Next

LEMMA ReserveInv ==
    ASSUME IInv, NEW len \in 0 .. MaxReadable, EnsureWritableBytes(len) \/ Shrink(len)
    PROVE  Steps
<1> DEFINE q == Content(buffer)
<1>1. Holds(buffer, q) /\ len \in Nat /\ call' = [op |-> "reserve", data |-> <<>>]
  BY NowHolds, BufferAssumption DEF EnsureWritableBytes, Shrink
<1>2. Holds(buffer', q)
  <2>1. CASE EnsureWritableBytes(len)
    BY <1>1, <2>1, EnsureWritableStep DEF EnsureWritableBytes
  <2>2. CASE Shrink(len)
    BY <1>1, <2>2, ShrinkStep DEF Shrink
  <2> QED
    BY <2>1, <2>2
<1>3. Valid(buffer') /\ Content(buffer') = q /\ call'.data = <<>> /\ call'.op = "reserve"
  BY <1>1, <1>2 DEF Holds
<1>4. IInv'
  BY <1>3 DEF IInv
<1>5. Queue!Reserve
  BY <1>3 DEF Queue!Reserve, Content
<1> QED
  BY <1>3, <1>4, <1>5 DEF Steps, GrowStep, Queue!Next

LEMMA NextSteps == IInv /\ [Next]_vars => Steps
<1> SUFFICES ASSUME IInv, [Next]_vars PROVE Steps
  OBVIOUS
<1>1. ASSUME NEW data \in Chunks,
             Append_(data) \/ WriteInPlace(data) \/ ReadFd(data) \/ Prepend(data)
      PROVE  Steps
  BY <1>1, AppendInv, PrependInv
<1>2. ASSUME NEW len \in 0 .. MaxReadable,
             Retrieve(len) \/ Unwrite(len) \/ EnsureWritableBytes(len) \/ Shrink(len)
      PROVE  Steps
  BY <1>2, RetrieveInv, UnwriteInv, ReserveInv
<1>3. ASSUME UNCHANGED vars PROVE Steps
  <2>1. buffer' = buffer /\ call' = call
    BY <1>3 DEF vars
  <2>2. IInv'
    BY <2>1 DEF IInv
  <2>3. UNCHANGED Queue!vars
    BY <2>1 DEF Queue!vars, Content
  <2>4. Len(buffer.bytes) \in Nat
    BY NowHolds, HoldsFields
  <2>5. GrowStep
    BY <2>1, <2>4 DEF GrowStep
  <2> QED
    BY <2>2, <2>3, <2>5 DEF Steps
<1> QED
  BY <1>1, <1>2, <1>3 DEF Next

LEMMA InitInv == Init => IInv /\ Queue!Init
<1> SUFFICES ASSUME Init PROVE IInv /\ Queue!Init
  OBVIOUS
<1>1. Valid(buffer) /\ Content(buffer) = <<>> /\ call = [op |-> "new", data |-> <<>>]
  BY NewStep DEF Init, Holds
<1> QED
  BY <1>1 DEF IInv, Queue!Init

-------------------------------------------------------------------------------
(* What holds of every buffer.                                             *)

(* For every initial size, room in front and size of extrabuf, and for any *)
(* sequence of calls, the readable bytes are the queue that the calls      *)
(* describe, and the indices stay in their order inside the vector.        *)
THEOREM BufferIsByteQueue == Spec => IsByteQueue
<1>1. Init => IInv /\ Queue!Init
  BY InitInv
<1>2. IInv /\ [Next]_vars => IInv' /\ [Queue!Next]_(Queue!vars)
  BY NextSteps DEF Steps
<1>3. IInv => TypeOK
  BY DEF IInv, Valid, TypeOK
<1> QED
  BY <1>1, <1>2, <1>3, PTL DEF Spec, IsByteQueue, Queue!Spec

(* The vector never grows while the bytes that are taken back to the front *)
(* would leave room enough at its end.                                     *)
THEOREM GrowthIsNeeded == Spec => GrowsOnlyWhenFull
<1>1. Init => IInv
  BY InitInv
<1>2. IInv /\ [Next]_vars => IInv'
  BY NextSteps DEF Steps
<1>3. IInv /\ [Next]_vars =>
          [(call'.op = "append" /\ Len(buffer'.bytes) > Len(buffer.bytes)) =>
              ReadableBytes(buffer') + KCheapPrepend > Len(buffer.bytes)]_vars
  BY NextSteps DEF Steps, GrowStep
<1> QED
  BY <1>1, <1>2, <1>3, PTL DEF Spec, GrowsOnlyWhenFull
===============================================================================
