------------------------ MODULE BoundedBlockQueueProofs ------------------------
(***************************************************************************)
(* Proofs about BoundedBlockQueue for any number of threads, slots and     *)
(* items: the ring keeps the items it holds, no sleeper is forgotten, and  *)
(* the ring implements BlockQueue for its consumers.                       *)
(***************************************************************************)
EXTENDS BoundedBlockQueue, FiniteSetTheorems, SequenceTheorems, TLAPS

(* Every slot between the head and the tail holds an item that was pushed, *)
(* and what was pushed and not yet popped is in the ring.                  *)
RingInv ==
    /\ \A k \in 0 .. N - 1 : k < Size => slots[(head + k) % N] \in Items
    /\ numItems = Len(popped) + Size

IInv == RingInv /\ NoSleeperForgotten

-------------------------------------------------------------------------------
(* The ring.                                                               *)

(* The slot k places after slot h.                                         *)
Slot(h, k) == (h + k) % N

LEMMA SlotAfter ==
    \A h \in 0 .. N - 1 : \A k \in 0 .. N :
        Slot(h, k) = IF h + k < N THEN h + k ELSE h + k - N
<1> SUFFICES ASSUME NEW h \in 0 .. N - 1, NEW k \in 0 .. N
             PROVE  (h + k) % N = IF h + k < N THEN h + k ELSE h + k - N
  BY DEF Slot
<1> USE BoundedBlockQueueAssumption
<1>1. CASE h + k < N
  BY <1>1
<1>2. CASE h + k >= N
  <2>1. h + k - N \in 0 .. N - 1
    BY <1>2
  <2>2. h + k = 1 * N + (h + k - N)
    OBVIOUS
  <2> QED
    BY <1>2, <2>1, <2>2
<1> QED
  BY <1>1, <1>2

(* The tests of push() and pop() in terms of the number of items: one slot *)
(* always stays free.                                                      *)
LEMMA SizeTests ==
    ASSUME TypeOK
    PROVE  /\ Size \in 0 .. N - 1
           /\ IsEmpty <=> Size = 0
           /\ IsFull <=> Size = N - 1
<1> USE BoundedBlockQueueAssumption
<1>1. Size \in 0 .. N - 1 /\ (IsEmpty <=> Size = 0)
  BY DEF TypeOK, Size, IsEmpty
<1>2. Slot(tail, 1) = IF tail + 1 < N THEN tail + 1 ELSE 0
  BY SlotAfter DEF TypeOK
<1>3. IsFull <=> Slot(tail, 1) = head
  BY DEF IsFull, Slot
<1>4. IsFull <=> Size = N - 1
  BY <1>2, <1>3 DEF TypeOK, Size
<1> QED
  BY <1>1, <1>4

(* What push() does to the indices.                                        *)
LEMMA PushIndices ==
    ASSUME TypeOK, ~IsFull, tail' = (tail + 1) % N, head' = head
    PROVE  /\ tail' \in 0 .. N - 1
           /\ Size' = Size + 1
           /\ tail = Slot(head, Size)
           /\ \A k \in 0 .. N - 1 : k < Size => Slot(head, k) # tail
<1> USE BoundedBlockQueueAssumption
<1>1. tail' = Slot(tail, 1) /\ tail' # head
  BY DEF IsFull, Slot
<1>2. tail' = IF tail + 1 < N THEN tail + 1 ELSE 0
  BY <1>1, SlotAfter DEF TypeOK
<1>3. tail' \in 0 .. N - 1 /\ Size' = Size + 1
  <2>1. CASE tail + 1 < N
    BY <1>1, <1>2, <2>1, SMTT(20) DEF TypeOK, Size
  <2>2. CASE tail + 1 = N
    BY <1>1, <1>2, <2>2 DEF TypeOK, Size
  <2> QED
    BY <2>1, <2>2 DEF TypeOK
<1>4. tail = Slot(head, Size)
  <2>1. Slot(head, Size) = IF head + Size < N THEN head + Size ELSE head + Size - N
    BY SizeTests, SlotAfter DEF TypeOK
  <2> QED
    BY <2>1 DEF TypeOK, Size
<1>5. ASSUME NEW k \in 0 .. N - 1, k < Size PROVE Slot(head, k) # tail
  <2>1. Slot(head, k) = IF head + k < N THEN head + k ELSE head + k - N
    BY SlotAfter DEF TypeOK
  <2> QED
    BY <1>5, <2>1 DEF TypeOK, Size
<1> QED
  BY <1>3, <1>4, <1>5

(* What pop() does to the indices.                                         *)
LEMMA PopIndices ==
    ASSUME TypeOK, ~IsEmpty, head' = (head + 1) % N, tail' = tail
    PROVE  /\ head' \in 0 .. N - 1
           /\ Size' = Size - 1
           /\ head = Slot(head, 0)
           /\ \A k \in 0 .. N - 1 : k < Size' => Slot(head', k) = Slot(head, k + 1)
<1> USE BoundedBlockQueueAssumption
<1>1. head' = Slot(head, 1) /\ head # tail
  BY DEF IsEmpty, Slot
<1>2. head' = IF head + 1 < N THEN head + 1 ELSE 0
  BY <1>1, SlotAfter DEF TypeOK
<1>3. head' \in 0 .. N - 1 /\ Size' = Size - 1
  BY <1>1, <1>2 DEF TypeOK, Size
<1>4. head = Slot(head, 0)
  BY SlotAfter DEF TypeOK
<1>5. ASSUME NEW k \in 0 .. N - 1, k < Size' PROVE Slot(head', k) = Slot(head, k + 1)
  <2>1. Slot(head', k) = IF head' + k < N THEN head' + k ELSE head' + k - N
    BY <1>3, SlotAfter
  <2>2. k + 1 \in 0 .. N
    OBVIOUS
  <2>3. Slot(head, k + 1) = IF head + (k + 1) < N THEN head + (k + 1) ELSE head + (k + 1) - N
    BY <2>2, SlotAfter DEF TypeOK
  <2> QED
    BY <1>2, <1>3, <1>5, <2>1, <2>3, SizeTests, SMTT(20) DEF TypeOK
<1> QED
  BY <1>3, <1>4, <1>5

-------------------------------------------------------------------------------
(* The threads.                                                            *)

(* notify_one() by a thread t of one group G on the condition variable of  *)
(* the other group H.                                                      *)
LEMMA NotifyEffect ==
    ASSUME TypeOK,
           NEW G \in SUBSET Threads, NEW H \in SUBSET Threads, G \cap H = {},
           NEW t \in G, HasMutex(t), NotifyOne(t, H)
    PROVE  /\ pc' \in [Threads -> {"out", "wait", "woken"}]
           /\ Waiting(G)' = Waiting(G)
           /\ Woken(G)' = Woken(G) \ {t}
           /\ \/ Waiting(H)' = {} /\ Waiting(H) = {} /\ \A h \in H : pc'[h] = pc[h]
              \/ \E w \in Waiting(H) :
                     /\ Woken(H)' = Woken(H) \cup {w}
                     /\ w \notin Woken(H)
                     /\ \A h \in H : pc'[h] = IF h = w THEN "woken" ELSE pc[h]
<1>1. CASE Waiting(H) = {} /\ pc' = [pc EXCEPT ![t] = "out"]
  BY <1>1 DEF TypeOK, HasMutex, Waiting, Woken
<1>2. ASSUME NEW w \in Waiting(H), pc' = [pc EXCEPT ![t] = "out", ![w] = "woken"]
      PROVE  /\ pc' \in [Threads -> {"out", "wait", "woken"}]
             /\ Waiting(G)' = Waiting(G)
             /\ Woken(G)' = Woken(G) \ {t}
             /\ Woken(H)' = Woken(H) \cup {w}
             /\ w \notin Woken(H)
             /\ \A h \in H : pc'[h] = IF h = w THEN "woken" ELSE pc[h]
  <2>1. w \in H /\ w \notin G /\ t \notin H /\ pc[w] = "wait" /\ w \in Threads
    BY DEF Waiting
  <2> QED
    BY <1>2, <2>1 DEF TypeOK, HasMutex, Waiting, Woken
<1> QED
  BY <1>1, <1>2 DEF NotifyOne

(* The same, as counts: one thread less of the own group at most is woken, *)
(* and one more of the other group if one of it still waits.               *)
LEMMA NotifyCounts ==
    ASSUME TypeOK,
           NEW G \in SUBSET Threads, NEW H \in SUBSET Threads, G \cap H = {},
           IsFiniteSet(G), IsFiniteSet(H),
           NEW t \in G, HasMutex(t), NotifyOne(t, H)
    PROVE  /\ Cardinality(Woken(G)) \in Nat /\ Cardinality(Woken(H)) \in Nat
           /\ Cardinality(Woken(G)') \in Nat /\ Cardinality(Woken(H)') \in Nat
           /\ Cardinality(Woken(G)') >= Cardinality(Woken(G)) - 1
           /\ Waiting(H)' # {} =>
                  /\ Waiting(H) # {}
                  /\ Cardinality(Woken(H)') = Cardinality(Woken(H)) + 1
<1>1. IsFiniteSet(Woken(G)) /\ IsFiniteSet(Woken(H)) /\ IsFiniteSet(Woken(G)') /\ IsFiniteSet(Woken(H)')
  BY FS_Subset DEF Woken
<1>2. /\ Cardinality(Woken(G)) \in Nat /\ Cardinality(Woken(H)) \in Nat
      /\ Cardinality(Woken(G)') \in Nat /\ Cardinality(Woken(H)') \in Nat
  BY <1>1, FS_CardinalityType
<1>3. Cardinality(Woken(G) \ {t}) >= Cardinality(Woken(G)) - 1
  <2>1. Cardinality(Woken(G) \ {t}) =
            IF t \in Woken(G) THEN Cardinality(Woken(G)) - 1 ELSE Cardinality(Woken(G))
    BY <1>1, FS_RemoveElement, Zenon
  <2> QED
    BY <1>2, <2>1
<1>4. Woken(G)' = Woken(G) \ {t}
  BY NotifyEffect
<1>5. ASSUME Waiting(H)' # {}
      PROVE  Waiting(H) # {} /\ Cardinality(Woken(H)') = Cardinality(Woken(H)) + 1
  <2>1. PICK w \in Waiting(H) : Woken(H)' = Woken(H) \cup {w} /\ w \notin Woken(H)
    BY <1>5, NotifyEffect
  <2> QED
    BY <1>1, <2>1, FS_AddElement
<1> QED
  BY <1>2, <1>3, <1>4, <1>5

(* A thread that goes to wait, or stops waiting, without a notification.   *)
LEMMA WaitCounts ==
    ASSUME TypeOK, NEW G \in SUBSET Threads, IsFiniteSet(G), NEW t \in Threads
    PROVE  /\ Cardinality(Woken(G)) \in Nat
           /\ pc' = [pc EXCEPT ![t] = "woken"] /\ pc[t] = "wait" =>
                  /\ Waiting(G)' \subseteq Waiting(G)
                  /\ Cardinality(Woken(G)') \in Nat
                  /\ Cardinality(Woken(G)) <= Cardinality(Woken(G)')
           /\ pc' = [pc EXCEPT ![t] = "wait"] /\ t \notin G =>
                  Waiting(G)' = Waiting(G) /\ Woken(G)' = Woken(G)
<1>1. IsFiniteSet(Woken(G)) /\ IsFiniteSet(Woken(G)')
  BY FS_Subset DEF Woken
<1>2. Cardinality(Woken(G)) \in Nat /\ Cardinality(Woken(G)') \in Nat
  BY <1>1, FS_CardinalityType
<1>3. ASSUME pc' = [pc EXCEPT ![t] = "woken"], pc[t] = "wait"
      PROVE  /\ Waiting(G)' \subseteq Waiting(G)
             /\ Cardinality(Woken(G)) <= Cardinality(Woken(G)')
  <2>1. Waiting(G)' \subseteq Waiting(G) /\ Woken(G) \subseteq Woken(G)'
    BY <1>3 DEF TypeOK, Waiting, Woken
  <2> QED
    BY <1>1, <2>1, FS_Subset
<1>4. ASSUME pc' = [pc EXCEPT ![t] = "wait"], t \notin G
      PROVE  Waiting(G)' = Waiting(G) /\ Woken(G)' = Woken(G)
  BY <1>4 DEF TypeOK, Waiting, Woken
<1> QED
  BY <1>2, <1>3, <1>4

-------------------------------------------------------------------------------
(* The steps.                                                              *)

LEMMA InitInv == Init => IInv
<1> SUFFICES ASSUME Init PROVE IInv
  OBVIOUS
<1> USE BoundedBlockQueueAssumption
<1>1. TypeOK
  BY DEF Init, TypeOK, Threads, Items
<1>2. Size = 0 /\ Waiting(Consumers) = {} /\ Waiting(Producers) = {}
  BY DEF Init, Size, Waiting, Threads
<1>3. RingInv
  BY <1>2 DEF Init, RingInv
<1> QED
  BY <1>1, <1>2, <1>3 DEF IInv, NoSleeperForgotten

(* The ring part: push() fills the slot behind the last item, pop() takes  *)
(* the first item.                                                         *)
LEMMA RingStep == TypeOK /\ RingInv /\ [Next]_vars => TypeOK' /\ RingInv'
<1> SUFFICES ASSUME TypeOK, RingInv, [Next]_vars PROVE TypeOK' /\ RingInv'
  OBVIOUS
<1> USE BoundedBlockQueueAssumption
<1>1. ASSUME NEW p \in Producers, Push(p) PROVE TypeOK' /\ RingInv'
  <2>1. /\ tail' \in 0 .. N - 1
        /\ Size' = Size + 1
        /\ tail = Slot(head, Size)
        /\ \A k \in 0 .. N - 1 : k < Size => Slot(head, k) # tail
    BY <1>1, PushIndices DEF Push
  <2>2. numItems + 1 \in Items /\ Size \in 0 .. N - 1
    BY <1>1, SizeTests DEF TypeOK, Push, Items
  <2>3. pc' \in [Threads -> {"out", "wait", "woken"}]
    BY <1>1, NotifyEffect DEF Push, Threads
  <2>4. TypeOK'
    BY <1>1, <2>1, <2>2, <2>3, SMTT(20) DEF TypeOK, Push, Items
  <2>5. ASSUME NEW k \in 0 .. N - 1, k < Size' PROVE slots'[Slot(head', k)] \in Items
    <3>1. Slot(head, k) \in 0 .. N - 1
      <4>1. Slot(head, k) = IF head + k < N THEN head + k ELSE head + k - N
        BY SlotAfter DEF TypeOK
      <4> QED
        BY <4>1 DEF TypeOK
    <3>2. CASE k < Size
      BY <1>1, <2>1, <3>1, <3>2 DEF Push, RingInv, TypeOK, Slot
    <3>3. CASE k = Size
      BY <1>1, <2>1, <2>2, <3>1, <3>3 DEF Push, TypeOK
    <3> QED
      BY <2>1, <2>2, <2>5, <3>2, <3>3
  <2>6. numItems' = Len(popped') + Size'
    BY <1>1, <2>1, <2>2 DEF Push, RingInv, TypeOK
  <2> QED
    BY <2>4, <2>5, <2>6 DEF RingInv, Slot
<1>2. ASSUME NEW c \in Consumers, Pop(c) PROVE TypeOK' /\ RingInv'
  <2>1. /\ head' \in 0 .. N - 1
        /\ Size' = Size - 1
        /\ head = Slot(head, 0)
        /\ \A k \in 0 .. N - 1 : k < Size' => Slot(head', k) = Slot(head, k + 1)
    BY <1>2, PopIndices DEF Pop
  <2>2. Size \in 1 .. N - 1
    BY <1>2, SizeTests DEF Pop
  <2>3. pc' \in [Threads -> {"out", "wait", "woken"}]
    BY <1>2, NotifyEffect DEF Pop, Threads
  <2>4. slots[head] \in Items
    BY <2>1, <2>2 DEF RingInv, Slot
  <2>5. popped' \in Seq(Items) /\ Len(popped') = Len(popped) + 1
    BY <1>2, <2>4, AppendProperties DEF Pop, TypeOK
  <2>6. TypeOK'
    BY <1>2, <2>1, <2>3, <2>5 DEF TypeOK, Pop
  <2>7. ASSUME NEW k \in 0 .. N - 1, k < Size' PROVE slots'[Slot(head', k)] \in Items
    <3>1. k + 1 \in 0 .. N - 1 /\ k + 1 < Size
      BY <2>1, <2>2, <2>7
    <3> QED
      BY <1>2, <2>1, <2>7, <3>1 DEF Pop, RingInv, Slot
  <2>8. numItems' = Len(popped') + Size'
    BY <1>2, <2>1, <2>2, <2>5 DEF Pop, RingInv, TypeOK
  <2> QED
    BY <2>6, <2>7, <2>8 DEF RingInv, Slot
<1>3. ASSUME NEW t \in Threads, PushWaits(t) \/ PopWaits(t) \/ SpuriousWakeUp(t)
      PROVE  TypeOK' /\ RingInv'
  BY <1>3 DEF TypeOK, RingInv, Size, PushWaits, PopWaits, SpuriousWakeUp
<1>4. CASE UNCHANGED vars
  BY <1>4 DEF TypeOK, RingInv, Size, vars
<1> QED
  BY <1>1, <1>2, <1>3, <1>4 DEF Next, Threads

(* The sleepers: a push() wakes one consumer for the item it adds and      *)
(* takes at most one producer out of those on their way, for the slot it   *)
(* fills; a pop() the other way round.                                     *)
LEMMA SleeperStep == NoSleeperForgotten /\ TypeOK' /\ [Next]_vars => NoSleeperForgotten'
<1> SUFFICES ASSUME NoSleeperForgotten, TypeOK', [Next]_vars PROVE NoSleeperForgotten'
  OBVIOUS
<1> USE BoundedBlockQueueAssumption
<1>1. TypeOK /\ Size \in 0 .. N - 1
  BY SizeTests DEF NoSleeperForgotten
<1>2. Producers \in SUBSET Threads /\ Consumers \in SUBSET Threads
  BY DEF Threads
<1>3. ASSUME NEW p \in Producers, Push(p) PROVE NoSleeperForgotten'
  <2>1. Size' = Size + 1
    BY <1>1, <1>3, PushIndices DEF Push
  <2>2. HasMutex(p) /\ NotifyOne(p, Consumers)
    BY <1>3 DEF Push
  <2>3. Waiting(Producers)' = Waiting(Producers)
    BY <1>1, <1>2, <2>2, NotifyEffect
  <2> QED
    BY <1>1, <1>2, <2>1, <2>2, <2>3, NotifyCounts DEF NoSleeperForgotten
<1>4. ASSUME NEW c \in Consumers, Pop(c) PROVE NoSleeperForgotten'
  <2>1. Size' = Size - 1
    BY <1>1, <1>4, PopIndices DEF Pop
  <2>2. HasMutex(c) /\ NotifyOne(c, Producers) /\ Consumers \cap Producers = {}
    BY <1>4 DEF Pop
  <2>3. Waiting(Consumers)' = Waiting(Consumers)
    BY <1>1, <1>2, <2>2, NotifyEffect
  <2> QED
    BY <1>1, <1>2, <2>1, <2>2, <2>3, NotifyCounts DEF NoSleeperForgotten
<1>5. ASSUME NEW p \in Producers, PushWaits(p) PROVE NoSleeperForgotten'
  <2>1. Size' = Size /\ Size = N - 1
    BY <1>1, <1>5, SizeTests DEF PushWaits, Size
  <2>2. Waiting(Consumers)' = Waiting(Consumers) /\ Woken(Consumers)' = Woken(Consumers)
    BY <1>1, <1>2, <1>5, WaitCounts DEF PushWaits
  <2>3. Cardinality(Woken(Producers)') \in Nat
    BY <1>2, FS_Subset, FS_CardinalityType DEF Woken
  <2> QED
    BY <1>1, <2>1, <2>2, <2>3 DEF NoSleeperForgotten
<1>6. ASSUME NEW c \in Consumers, PopWaits(c) PROVE NoSleeperForgotten'
  <2>1. Size' = Size /\ Size = 0
    BY <1>1, <1>6, SizeTests DEF PopWaits, Size
  <2>2. Waiting(Producers)' = Waiting(Producers) /\ Woken(Producers)' = Woken(Producers)
    BY <1>1, <1>2, <1>6, WaitCounts DEF PopWaits
  <2>3. Cardinality(Woken(Consumers)') \in Nat
    BY <1>2, FS_Subset, FS_CardinalityType DEF Woken
  <2> QED
    BY <1>1, <2>1, <2>2, <2>3 DEF NoSleeperForgotten
<1>7. ASSUME NEW t \in Threads, SpuriousWakeUp(t) PROVE NoSleeperForgotten'
  <2>1. Size' = Size
    BY <1>7 DEF SpuriousWakeUp, Size
  <2>2. ASSUME NEW G \in SUBSET Threads, IsFiniteSet(G)
        PROVE  /\ Waiting(G)' \subseteq Waiting(G)
               /\ Cardinality(Woken(G)) \in Nat /\ Cardinality(Woken(G)') \in Nat
               /\ Cardinality(Woken(G)) <= Cardinality(Woken(G)')
    BY <1>1, <1>7, <2>2, WaitCounts DEF SpuriousWakeUp
  <2> QED
    BY <1>1, <1>2, <2>1, <2>2 DEF NoSleeperForgotten
<1>8. CASE UNCHANGED vars
  BY <1>8 DEF NoSleeperForgotten, Size, Waiting, Woken, vars
<1> QED
  BY <1>3, <1>4, <1>5, <1>6, <1>7, <1>8 DEF Next

(* Whoever takes the mutex first and whoever wakes up for nothing, one     *)
(* notify_one() for each push() and pop() forgets no sleeping thread, and  *)
(* the indices stay in the ring: for every number of producers and         *)
(* consumers and every template parameter N.                               *)
THEOREM SleepersAreServed == Spec => []NoSleeperForgotten
<1>1. IInv /\ [Next]_vars => IInv'
  BY RingStep, SleeperStep DEF IInv, NoSleeperForgotten
<1> QED
  BY InitInv, <1>1, PTL DEF Spec, IInv

-------------------------------------------------------------------------------
(* The refinement.                                                         *)

(* The content of the ring as a sequence.                                  *)
ContentIsSeq ==
    /\ Content \in Seq(Items \cup {0})
    /\ Len(Content) = Size
    /\ \A i \in 1 .. Size : Content[i] = slots[Slot(head, i - 1)]

LEMMA ContentSeq == TypeOK => ContentIsSeq
<1> SUFFICES ASSUME TypeOK PROVE ContentIsSeq
  OBVIOUS
<1> USE BoundedBlockQueueAssumption
<1>1. Size \in 0 .. N - 1
  BY SizeTests
<1>2. ASSUME NEW i \in 1 .. Size
      PROVE  (head + i - 1) % N = Slot(head, i - 1) /\ Slot(head, i - 1) \in 0 .. N - 1
  <2>1. i - 1 \in 0 .. N - 1
    BY <1>1
  <2>2. Slot(head, i - 1) = IF head + (i - 1) < N THEN head + (i - 1) ELSE head + (i - 1) - N
    BY <2>1, SlotAfter DEF TypeOK
  <2>3. head + i - 1 = head + (i - 1)
    BY <1>1 DEF TypeOK
  <2> QED
    BY <2>1, <2>2, <2>3 DEF Slot, TypeOK
<1>3. \A i \in 1 .. Size : slots[(head + i - 1) % N] \in Items \cup {0}
  BY <1>2 DEF TypeOK
<1>4. Content \in Seq(Items \cup {0}) /\ Len(Content) = Size
  BY <1>1, <1>3 DEF Content
<1> QED
  BY <1>2, <1>4 DEF Content, ContentIsSeq

(* Each step of the ring is a step of the unbounded queue, or none.        *)
LEMMA UnboundedStep ==
    TypeOK /\ TypeOK' /\ RingInv /\ [Next]_vars => [Unbounded!Next]_(Unbounded!vars)
<1> SUFFICES ASSUME TypeOK, TypeOK', RingInv, [Next]_vars
             PROVE  [Unbounded!Next]_(Unbounded!vars)
  OBVIOUS
<1> USE BoundedBlockQueueAssumption
<1> DEFINE PC == [c \in Consumers |-> pc[c]]
<1>0. /\ Producers \in SUBSET Threads /\ Consumers \in SUBSET Threads
      /\ Size \in 0 .. N - 1
      /\ Content \in Seq(Items \cup {0}) /\ Len(Content) = Size
      /\ \A i \in 1 .. Size : Content[i] = slots[Slot(head, i - 1)]
  BY SizeTests, ContentSeq DEF Threads, ContentIsSeq
<1>1. /\ Content' \in Seq(Items \cup {0}) /\ Len(Content') = Size'
      /\ \A i \in 1 .. Size' : Content'[i] = slots'[Slot(head', i - 1)]
  <2>1. ContentIsSeq'
    BY ContentSeq, PTL
  <2> QED
    BY <2>1 DEF ContentIsSeq
<1>2. ASSUME NEW p \in Producers, Push(p) PROVE Unbounded!Push
  <2>1. /\ Size' = Size + 1
        /\ tail = Slot(head, Size)
        /\ \A k \in 0 .. N - 1 : k < Size => Slot(head, k) # tail
    BY <1>2, PushIndices DEF Push
  <2>2. numItems + 1 \in Items /\ numItems + 1 = Len(popped) + Len(Content) + 1
    BY <1>2, <1>0 DEF Push, Items, TypeOK, RingInv
  <2>3. ASSUME NEW i \in 1 .. Size' PROVE Content'[i] = Append(Content, numItems + 1)[i]
    <3>1. CASE i <= Size
      <4>1. i - 1 \in 0 .. N - 1 /\ i - 1 < Size /\ i \in 1 .. Size
        BY <1>0, <3>1
      <4>2. Slot(head, i - 1) # tail /\ head' = head
        BY <1>2, <2>1, <4>1 DEF Push
      <4>3. slots'[Slot(head, i - 1)] = slots[Slot(head, i - 1)]
        BY <1>2, <4>2 DEF Push, TypeOK
      <4> QED
        BY <1>0, <1>1, <2>2, <4>1, <4>2, <4>3, AppendProperties
    <3>2. CASE i = Size + 1
      <4>1. slots'[tail] = numItems + 1 /\ head' = head
        BY <1>2 DEF Push, TypeOK
      <4>2. Content'[i] = numItems + 1
        BY <1>0, <1>1, <2>1, <3>2, <4>1
      <4> QED
        BY <1>0, <2>2, <3>2, <4>2, AppendProperties
    <3> QED
      BY <1>0, <2>1, <3>1, <3>2
  <2>4. Content' = Append(Content, Len(popped) + Len(Content) + 1)
    <3> DEFINE C == Append(Content, numItems + 1)
    <3>1. C \in Seq(Items \cup {0}) /\ Len(C) = Size'
      BY <1>0, <2>1, <2>2, AppendProperties
    <3>2. \A i \in 1 .. Len(Content') : Content'[i] = C[i]
      BY <1>1, <2>3
    <3> HIDE DEF C
    <3>3. Content' = C
      BY <1>1, <3>1, <3>2, SeqEqual
    <3> QED
      BY <2>2, <3>3 DEF C
  <2>5. \/ (\A c \in Consumers : PC[c] # "wait") /\ PC' = PC
        \/ \E c \in Consumers : PC[c] = "wait" /\ PC' = [PC EXCEPT ![c] = "woken"]
    <3>1. HasMutex(p) /\ NotifyOne(p, Consumers)
      BY <1>2 DEF Push
    <3>2. ASSUME Waiting(Consumers) = {}, \A c \in Consumers : pc'[c] = pc[c]
          PROVE  (\A c \in Consumers : PC[c] # "wait") /\ PC' = PC
      BY <3>2 DEF Waiting
    <3>3. ASSUME NEW w \in Waiting(Consumers),
                 \A c \in Consumers : pc'[c] = IF c = w THEN "woken" ELSE pc[c]
          PROVE  w \in Consumers /\ PC[w] = "wait" /\ PC' = [PC EXCEPT ![w] = "woken"]
      BY <3>3 DEF Waiting
    <3>4. \/ Waiting(Consumers) = {} /\ \A c \in Consumers : pc'[c] = pc[c]
          \/ \E w \in Waiting(Consumers) :
                 \A c \in Consumers : pc'[c] = IF c = w THEN "woken" ELSE pc[c]
      <4>1. \/ Waiting(Consumers)' = {} /\ Waiting(Consumers) = {}
               /\ \A c \in Consumers : pc'[c] = pc[c]
            \/ \E w \in Waiting(Consumers) :
                   /\ Woken(Consumers)' = Woken(Consumers) \cup {w}
                   /\ w \notin Woken(Consumers)
                   /\ \A c \in Consumers : pc'[c] = IF c = w THEN "woken" ELSE pc[c]
        BY <1>0, <3>1, NotifyEffect
      <4> QED
        BY <4>1
    <3> HIDE DEF PC
    <3> QED
      BY <3>2, <3>3, <3>4
  <2> QED
    BY <1>2, <2>4, <2>5 DEF Unbounded!Push, Push
<1>3. ASSUME NEW c \in Consumers, Pop(c) PROVE Unbounded!Pop(c)
  <2>1. /\ Size' = Size - 1
        /\ head = Slot(head, 0)
        /\ \A k \in 0 .. N - 1 : k < Size' => Slot(head', k) = Slot(head, k + 1)
    BY <1>3, PopIndices DEF Pop
  <2>2. Size \in 1 .. N - 1
    BY <1>3, SizeTests DEF Pop
  <2>3. Content # <<>> /\ Head(Content) = slots[head]
    BY <1>0, <2>1, <2>2
  <2>4. ASSUME NEW i \in 1 .. Size' PROVE Content'[i] = Content[i + 1]
    <3>1. i - 1 \in 0 .. N - 1 /\ i - 1 < Size' /\ i + 1 \in 1 .. Size
      BY <2>1, <2>2
    <3>2. Slot(head', i - 1) = Slot(head, (i + 1) - 1) /\ slots' = slots
      BY <1>3, <2>1, <3>1 DEF Pop
    <3> QED
      BY <1>0, <1>1, <3>1, <3>2
  <2>5. Content' = Tail(Content)
    <3>1. /\ Tail(Content) \in Seq(Items \cup {0})
          /\ Len(Tail(Content)) = Size'
          /\ \A i \in 1 .. Size' : Tail(Content)[i] = Content[i + 1]
      BY <1>0, <2>1, <2>3, HeadTailProperties
    <3> QED
      BY <1>1, <2>4, <3>1, SeqEqual
  <2>6. PC[c] # "wait" /\ PC' = [PC EXCEPT ![c] = "out"]
    <3>1. Waiting(Producers) \cap Consumers = {} /\ pc[c] # "wait"
      BY <1>3 DEF Pop, HasMutex, Waiting
    <3>2. \A d \in Consumers : pc'[d] = IF d = c THEN "out" ELSE pc[d]
      BY <1>0, <1>3, <3>1 DEF Pop, NotifyOne, TypeOK
    <3> QED
      BY <3>1, <3>2
  <2> QED
    BY <1>3, <2>3, <2>5, <2>6 DEF Unbounded!Pop, Pop
<1>4. ASSUME NEW c \in Consumers, PopWaits(c) PROVE Unbounded!PopWaits(c)
  <2>1. Content = <<>> /\ Content' = Content
    BY <1>0, <1>4, SizeTests DEF PopWaits, Content, Size
  <2>2. PC[c] # "wait" /\ PC' = [PC EXCEPT ![c] = "wait"]
    BY <1>0, <1>4 DEF PopWaits, HasMutex, TypeOK
  <2> QED
    BY <1>4, <2>1, <2>2 DEF Unbounded!PopWaits, PopWaits
<1>5. ASSUME NEW c \in Consumers, SpuriousWakeUp(c) PROVE Unbounded!SpuriousWakeUp(c)
  <2>1. Content' = Content
    BY <1>5 DEF SpuriousWakeUp, Content, Size
  <2>2. PC[c] = "wait" /\ PC' = [PC EXCEPT ![c] = "woken"]
    BY <1>0, <1>5 DEF SpuriousWakeUp, TypeOK
  <2> QED
    BY <1>5, <2>1, <2>2 DEF Unbounded!SpuriousWakeUp, SpuriousWakeUp
<1>6. ASSUME NEW p \in Producers, PushWaits(p) \/ SpuriousWakeUp(p)
      PROVE  UNCHANGED Unbounded!vars
  <2>1. Content' = Content /\ popped' = popped
    BY <1>6 DEF PushWaits, SpuriousWakeUp, Content, Size
  <2>2. PC' = PC
    BY <1>0, <1>6 DEF PushWaits, SpuriousWakeUp, TypeOK
  <2> QED
    BY <2>1, <2>2 DEF Unbounded!vars
<1>7. CASE UNCHANGED vars
  BY <1>7 DEF vars, Unbounded!vars, Content, Size
<1> QED
  BY <1>2, <1>3, <1>4, <1>5, <1>6, <1>7 DEF Next, Threads, Unbounded!Next

(* The ring, with its two indices, its bound and its waiting producers, is *)
(* the unbounded BlockQueue to its consumers, for every N.                 *)
THEOREM RingIsBlockQueue == Spec => IsBlockQueue
<1>1. Init => Unbounded!Init
  <2> SUFFICES ASSUME Init PROVE Unbounded!Init
    OBVIOUS
  <2>1. Size = 0 /\ Content = <<>>
    BY BoundedBlockQueueAssumption DEF Init, Size, Content
  <2> QED
    BY <2>1 DEF Init, Unbounded!Init, Threads
<1>2. Init => TypeOK /\ RingInv
  BY InitInv DEF IInv, NoSleeperForgotten
<1> QED
  BY <1>1, <1>2, RingStep, UnboundedStep, PTL DEF Spec, IsBlockQueue, Unbounded!Spec
===============================================================================
