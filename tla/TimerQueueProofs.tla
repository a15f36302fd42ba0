--------------------------- MODULE TimerQueueProofs ---------------------------
(***************************************************************************)
(* Proofs about TimerQueue for any number of timers, clients, addresses,   *)
(* delays, calls and jumps of the wall clock.                              *)
(***************************************************************************)
EXTENDS TimerQueue, WellFoundedInduction, TLAPS

(* The timers on the heap: none expires before the clock's zero, and no    *)
(* two have the same sequence number.                                      *)
HeapInv ==
    /\ \A a \in DOMAIN heap : heap[a].expiration \in Nat /\ heap[a].sequence < numCreated
    /\ \A a, b \in DOMAIN heap : heap[a].sequence = heap[b].sequence => a = b

(* There is a batch only inside handleRead(), and no timer is queued to be *)
(* added twice.                                                            *)
BatchInv ==
    /\ ~calling => expired = {}
    /\ \A e \in expired : e[1] = heap[e[2]].expiration
    /\ \A j, k \in 1 .. Len(functors) :
           (/\ functors[j].op = "add"
            /\ functors[k].op = "add"
            /\ functors[j].timer = functors[k].timer) => j = k

Core == ListsAgree /\ HeapInv /\ BatchInv

(* The timer at address b waits in the queue to be added.                  *)
Queued(b) == \E k \in 1 .. Len(functors) : functors[k].op = "add" /\ functors[k].timer = b

(* The loop knows the timer at address b, or will once its queue has run.  *)
Known(b) == (\E e \in timeList \cup expired : e[2] = b) \/ Queued(b)

(* The sequence numbers of timers that have come to their end.             *)
Ended == cancelled \cup done \cup {id[2] : id \in canceling}

(* Where the sequence numbers of ended timers can still be found.          *)
EndInv ==
    /\ cancelled \subseteq 0 .. numCreated - 1
    /\ done \subseteq 0 .. numCreated - 1
    /\ \A e \in timeList : heap[e[2]].sequence \notin cancelled \cup done
    /\ \A e \in expired :
           /\ heap[e[2]].sequence \in cancelled => IdOf(e[2]) \in canceling
           /\ heap[e[2]].sequence \in done <=> e \notin toRun /\ heap[e[2]].interval = 0
    /\ \A b \in DOMAIN heap : Queued(b) => heap[b].sequence \notin cancelled \cup done

(* A timer handed over by a client that has not yet returned from          *)
(* addTimer() is on the heap, or has come to its end.                      *)
AddingInv ==
    \A c \in Clients : adding[c] # NoTimer =>
        \/ adding[c][1] \in DOMAIN heap /\ IdOf(adding[c][1]) = adding[c]
        \/ adding[c][2] \in Ended

-------------------------------------------------------------------------------
(* Helpers.                                                                *)

LEMMA SmallestNat ==
    ASSUME NEW S, S \subseteq Nat, S # {}
    PROVE  \E x \in S : \A y \in S : x <= y
<1>1. PICK x \in S : \A y \in S : ~(<<y, x>> \in OpToRel(<, Nat))
  BY NatLessThanWellFounded, WFMin
<1>2. \A y \in S : ~(y < x)
  BY <1>1 DEF OpToRel
<1> QED
  BY <1>2

(* Earliest(list) is the first expiration in the list.                     *)
LEMMA EarliestIsFirst ==
    ASSUME NEW list, list # {}, \A e \in list : e[1] \in Nat
    PROVE  /\ Earliest(list) \in Nat
           /\ \E e \in list : Earliest(list) = e[1]
           /\ \A e \in list : Earliest(list) <= e[1]
<1> DEFINE W == {e[1] : e \in list}
<1>1. \E w \in W : \A v \in W : w <= v
  BY SmallestNat
<1>2. \E w \in W : \A e \in list : w <= e[1]
  BY <1>1
<1>3. Earliest(list) \in W /\ \A e \in list : Earliest(list) <= e[1]
  BY <1>2 DEF Earliest
<1> QED
  BY <1>3

(* new Timer: the heap grows by one timer with the next sequence number.   *)
LEMMA AllocStep ==
    ASSUME TypeOK, HeapInv, NEW a \in Addrs \ DOMAIN heap, NEW w \in Nat, NEW i \in Intervals,
           heap' = Alloc(a, Timer(w, i)), numCreated < MaxTimers, numCreated' = numCreated + 1
    PROVE  /\ DOMAIN heap' = DOMAIN heap \cup {a}
           /\ heap'[a] = Timer(w, i)
           /\ \A b \in DOMAIN heap : heap'[b] = heap[b]
           /\ \A b \in DOMAIN heap' :
                  heap'[b] \in [expiration : Int, interval : Intervals, sequence : Sequences]
           /\ DOMAIN heap' \subseteq Addrs
           /\ numCreated' \in 0 .. MaxTimers
           /\ HeapInv'
<1> USE TimerQueueAssumption
<1>1. /\ DOMAIN heap' = DOMAIN heap \cup {a}
      /\ heap'[a] = Timer(w, i)
      /\ \A b \in DOMAIN heap : heap'[b] = heap[b]
  BY DEF Alloc
<1>2. /\ heap'[a] \in [expiration : Int, interval : Intervals, sequence : Sequences]
      /\ heap'[a].expiration \in Nat
      /\ heap'[a].sequence = numCreated
  BY <1>1 DEF Timer, Sequences, TypeOK
<1>3. \A b \in DOMAIN heap : heap[b].sequence \in Nat /\ heap[b].sequence < numCreated
  BY DEF HeapInv, TypeOK, Sequences
<1>4. numCreated' \in 0 .. MaxTimers /\ numCreated \in Nat
  BY DEF TypeOK
<1>5. HeapInv'
  BY <1>1, <1>2, <1>3, <1>4 DEF HeapInv
<1> QED
  BY <1>1, <1>2, <1>4, <1>5 DEF TypeOK

(* The pairs in m_activeTimers are those of m_timeList.                    *)
LEMMA ActiveIsView ==
    activeTimers = {IdOf(e[2]) : e \in timeList} <=>
        /\ \A e \in timeList : IdOf(e[2]) \in activeTimers
        /\ \A t \in activeTimers : \E e \in timeList : t = IdOf(e[2])
  OBVIOUS

-------------------------------------------------------------------------------
(* The lists.                                                              *)

(* addTimerInLoop() for a timer that is on the heap and in no list.        *)
LEMMA AddStep ==
    ASSUME Core, NEW a \in DOMAIN heap', NEW t,
           heap'[a] = t,
           AddTimerInLoop(a, t),
           DOMAIN heap \subseteq DOMAIN heap', \A b \in DOMAIN heap : heap'[b] = heap[b],
           t \in [expiration : Nat, interval : Intervals, sequence : Sequences],
           a \in Addrs, \A e \in timeList \cup expired : e[2] # a,
           expired' = expired, now' = now
    PROVE  /\ tfd' \in Int /\ tfd' >= Off
           /\ timeList' \subseteq Entries
           /\ activeTimers' \subseteq TimerIds
           /\ \A e \in timeList' \cup expired' : e[2] \in DOMAIN heap'
           /\ \A e \in timeList' : e[1] = heap'[e[2]].expiration
           /\ activeTimers' = {IdOf(e[2]) : e \in timeList}'
           /\ \A e \in timeList', f \in expired' : e[2] # f[2]
<1> USE TimerQueueAssumption
<1>1. tfd' \in Int /\ tfd' >= Off
  BY DEF Core, ListsAgree, TypeOK, AddTimerInLoop, HowMuchTimeFromNow, Off
<1>2. timeList' \subseteq Entries /\ activeTimers' \subseteq TimerIds
  BY DEF Core, ListsAgree, TypeOK, AddTimerInLoop, Entries, TimerIds
<1>3. /\ \A e \in timeList' \cup expired' : e[2] \in DOMAIN heap'
      /\ \A e \in timeList' : e[1] = heap'[e[2]].expiration
      /\ \A e \in timeList', f \in expired' : e[2] # f[2]
  BY DEF Core, ListsAgree, AddTimerInLoop
<1>4. \A e \in timeList : heap'[e[2]] = heap[e[2]]
  BY DEF Core, ListsAgree
<1>5. activeTimers' = {IdOf(e[2]) : e \in timeList}'
  <2>1. \A e \in timeList' : IdOf(e[2])' \in activeTimers'
    BY <1>4 DEF Core, ListsAgree, AddTimerInLoop, IdOf
  <2>2. ASSUME NEW x \in activeTimers' PROVE \E e \in timeList' : x = IdOf(e[2])'
    <3>1. CASE x = <<a, t.sequence>>
      <4>1. <<t.expiration, a>> \in timeList' /\ x = IdOf(<<t.expiration, a>>[2])'
        BY <3>1 DEF AddTimerInLoop, IdOf
      <4> QED
        BY <4>1
    <3>2. CASE x \in activeTimers
      <4>1. PICK e \in timeList : x = IdOf(e[2])
        BY <3>2 DEF Core, ListsAgree
      <4> QED
        BY <1>4, <4>1 DEF AddTimerInLoop, IdOf
    <3> QED
      BY <3>1, <3>2 DEF AddTimerInLoop
  <2> QED
    BY <2>1, <2>2
<1> QED
  BY <1>1, <1>2, <1>3, <1>5

(* cancelInLoop(): an active timer leaves both lists and the heap.         *)
LEMMA CancelStep ==
    ASSUME Core, NEW id \in TimerIds, CancelInLoop(id),
           expired' = expired, numCreated' = numCreated
    PROVE  /\ DOMAIN heap' \subseteq DOMAIN heap
           /\ \A b \in DOMAIN heap' : heap'[b] = heap[b]
           /\ \A b \in DOMAIN heap \ DOMAIN heap' :
                  /\ IdOf(b) = id /\ id[2] \in cancelled'
                  /\ <<heap[b].expiration, b>> \in timeList
           /\ timeList' \subseteq Entries
           /\ activeTimers' \subseteq TimerIds
           /\ canceling' \subseteq TimerIds
           /\ cancelled' \subseteq Sequences
           /\ \A e \in timeList' \cup expired' : e[2] \in DOMAIN heap'
           /\ \A e \in timeList' : e[1] = heap'[e[2]].expiration
           /\ timeList' = {e \in timeList : e[2] \in DOMAIN heap'}
           /\ activeTimers' = {IdOf(e[2]) : e \in timeList}'
           /\ \A e \in timeList', f \in expired' : e[2] # f[2]
           /\ HeapInv'
<1> USE TimerQueueAssumption
<1>1. CASE id \in activeTimers
  <2> DEFINE a == id[1]
             x == <<heap[a].expiration, a>>
  <2>1. PICK e0 \in timeList : id = IdOf(e0[2])
    BY <1>1 DEF Core, ListsAgree
  <2>2. a = e0[2] /\ id = IdOf(a) /\ a \in DOMAIN heap /\ x = e0
    BY <2>1 DEF IdOf, Core, ListsAgree, TypeOK, Entries
  <2>3. /\ timeList' = timeList \ {x} /\ activeTimers' = activeTimers \ {id}
        /\ heap' = [b \in DOMAIN heap \ {a} |-> heap[b]]
        /\ cancelled' = cancelled \cup {id[2]} /\ canceling' = canceling
    BY <1>1 DEF CancelInLoop, Delete
  <2>4. DOMAIN heap' = DOMAIN heap \ {a} /\ \A b \in DOMAIN heap' : heap'[b] = heap[b]
    BY <2>3
  <2> HIDE DEF a, x
  <2>5. ASSUME NEW e \in timeList PROVE e[2] = a => e = x
    <3>1. e = <<e[1], e[2]>> /\ e[1] = heap[e[2]].expiration
      BY DEF Core, ListsAgree, TypeOK, Entries
    <3> QED
      BY <3>1 DEF x
  <2>6. timeList' = {e \in timeList : e[2] \in DOMAIN heap'}
    BY <2>2, <2>3, <2>4, <2>5 DEF Core, ListsAgree
  <2>7. \A e \in expired' : e[2] \in DOMAIN heap'
    BY <2>2, <2>4 DEF Core, ListsAgree
  <2>8. activeTimers' = {IdOf(e[2]) : e \in timeList}'
    <3>1. \A e \in timeList' : IdOf(e[2])' \in activeTimers'
      BY <2>2, <2>3, <2>4, <2>6 DEF Core, ListsAgree, IdOf
    <3>2. ASSUME NEW t \in activeTimers' PROVE \E e \in timeList' : t = IdOf(e[2])'
      BY <2>2, <2>3, <2>4, <2>6 DEF Core, ListsAgree, IdOf
    <3> QED
      BY <3>1, <3>2
  <2>9. HeapInv'
    BY <2>4 DEF Core, HeapInv
  <2>10. /\ timeList' \subseteq Entries /\ activeTimers' \subseteq TimerIds
         /\ canceling' \subseteq TimerIds /\ cancelled' \subseteq Sequences
    BY <2>3 DEF Core, ListsAgree, TypeOK, TimerIds
  <2>11. \A b \in DOMAIN heap \ DOMAIN heap' :
            /\ IdOf(b) = id /\ id[2] \in cancelled'
            /\ <<heap[b].expiration, b>> \in timeList
    BY <2>2, <2>3, <2>4 DEF x
  <2>12. /\ \A e \in timeList' : e[2] \in DOMAIN heap' /\ e[1] = heap'[e[2]].expiration
         /\ \A e \in timeList', f \in expired' : e[2] # f[2]
    BY <2>4, <2>6 DEF Core, ListsAgree
  <2> QED
    BY <2>4, <2>6, <2>7, <2>8, <2>9, <2>10, <2>11, <2>12
<1>2. CASE id \notin activeTimers
  <2>1. UNCHANGED <<timeList, activeTimers, heap>>
    BY <1>2 DEF CancelInLoop
  <2>2. canceling' \subseteq TimerIds /\ cancelled' \subseteq Sequences
    BY <1>2 DEF CancelInLoop, Core, ListsAgree, TypeOK, TimerIds
  <2> QED
    BY <2>1, <2>2 DEF Core, ListsAgree, TypeOK, HeapInv, IdOf
<1> QED
  BY <1>1, <1>2

(* A call that is queued, and one that is taken from the queue.            *)
LEMMA QueueAppend ==
    ASSUME functors \in Seq(Calls), NEW x \in Calls, functors' = Append(functors, x)
    PROVE  /\ functors' \in Seq(Calls)
           /\ Len(functors') = Len(functors) + 1
           /\ \A k \in 1 .. Len(functors) : functors'[k] = functors[k]
           /\ functors'[Len(functors) + 1] = x
           /\ Len(functors) \in Nat
  OBVIOUS

LEMMA QueueTail ==
    ASSUME functors \in Seq(Calls), functors # <<>>, functors' = Tail(functors)
    PROVE  /\ functors' \in Seq(Calls)
           /\ Len(functors') = Len(functors) - 1
           /\ \A k \in 1 .. Len(functors') :
                  k + 1 \in 1 .. Len(functors) /\ functors'[k] = functors[k + 1]
           /\ Len(functors) \in Nat \ {0}
           /\ Head(functors) = functors[1] /\ Head(functors) \in Calls
  OBVIOUS

(* The queue of calls goes on agreeing with the lists when it only loses   *)
(* its first call and no live timer other than that of this call is freed, *)
(* put into a list or into a batch.                                        *)
LEMMA QueueKept ==
    ASSUME Core,
           \/ functors' = functors
           \/ functors # <<>> /\ functors' = Tail(functors),
           NEW first,
           functors' # functors => first = functors[1],
           \A b \in DOMAIN heap :
               /\ b \notin DOMAIN heap' => \E e \in timeList \cup expired : e[2] = b
               /\ (\E e \in timeList' \cup expired' : e[2] = b) =>
                      \/ \E e \in timeList \cup expired : e[2] = b
                      \/ /\ functors' = Tail(functors) /\ functors # <<>>
                         /\ first.op = "add" /\ b = first.timer
    PROVE  /\ functors' \in Seq(Calls)
           /\ \A k \in 1 .. Len(functors') :
                  functors'[k].op = "add" =>
                      /\ functors'[k].timer \in DOMAIN heap'
                      /\ \A e \in timeList' \cup expired' : e[2] # functors'[k].timer
           /\ \A j, k \in 1 .. Len(functors') :
                  (/\ functors'[j].op = "add"
                   /\ functors'[k].op = "add"
                   /\ functors'[j].timer = functors'[k].timer) => j = k
<1>0. functors \in Seq(Calls)
  BY DEF Core, ListsAgree, TypeOK
<1>1. CASE functors' = functors /\ ~(functors # <<>> /\ functors' = Tail(functors))
  BY <1>0, <1>1 DEF Core, ListsAgree, BatchInv
<1>2. CASE functors # <<>> /\ functors' = Tail(functors)
  <2>1. /\ functors' \in Seq(Calls)
        /\ Len(functors') = Len(functors) - 1
        /\ \A k \in 1 .. Len(functors') :
               k + 1 \in 1 .. Len(functors) /\ functors'[k] = functors[k + 1]
        /\ Len(functors) \in Nat \ {0}
    BY <1>0, <1>2, QueueTail
  <2>2. first = functors[1]
    <3>1. Len(functors') # Len(functors)
      BY <2>1
    <3> QED
      BY <3>1
  <2>3. ASSUME NEW k \in 1 .. Len(functors'), functors'[k].op = "add"
        PROVE  /\ functors'[k].timer \in DOMAIN heap'
               /\ \A e \in timeList' \cup expired' : e[2] # functors'[k].timer
    <3> DEFINE b == functors[k + 1].timer
    <3>1. k + 1 \in 1 .. Len(functors) /\ functors'[k] = functors[k + 1] /\ 1 \in 1 .. Len(functors)
      BY <2>1
    <3>2. b \in DOMAIN heap /\ \A e \in timeList \cup expired : e[2] # b
      BY <2>3, <3>1 DEF Core, ListsAgree
    <3>3. ~(first.op = "add" /\ b = first.timer)
      BY <2>2, <2>3, <3>1 DEF Core, BatchInv
    <3> QED
      BY <3>1, <3>2, <3>3
  <2>4. ASSUME NEW j \in 1 .. Len(functors'), NEW k \in 1 .. Len(functors'),
               functors'[j].op = "add", functors'[k].op = "add",
               functors'[j].timer = functors'[k].timer
        PROVE  j = k
    <3>1. j + 1 = k + 1
      BY <2>1, <2>4 DEF Core, BatchInv
    <3> QED
      BY <3>1
  <2> QED
    BY <2>1, <2>3, <2>4
<1> QED
  BY <1>1, <1>2

LEMMA CancelCore ==
    ASSUME Core, NEW id \in TimerIds, CancelInLoop(id),
           functors' = functors \/ (functors # <<>> /\ functors' = Tail(functors)),
           UNCHANGED <<clock, tfd, polled, numCreated, batch, adding, ids, done>>
    PROVE  Core'
<1> USE TimerQueueAssumption
<1>1. UNCHANGED <<now, jumps, calling, expired, toRun, snapshot>>
  BY DEF clock, batch
<1>2. /\ DOMAIN heap' \subseteq DOMAIN heap
      /\ \A b \in DOMAIN heap' : heap'[b] = heap[b]
      /\ \A b \in DOMAIN heap \ DOMAIN heap' : <<heap[b].expiration, b>> \in timeList
      /\ timeList' \subseteq Entries
      /\ activeTimers' \subseteq TimerIds
      /\ canceling' \subseteq TimerIds
      /\ cancelled' \subseteq Sequences
      /\ \A e \in timeList' \cup expired' : e[2] \in DOMAIN heap'
      /\ \A e \in timeList' : e[1] = heap'[e[2]].expiration
      /\ timeList' = {e \in timeList : e[2] \in DOMAIN heap'}
      /\ activeTimers' = {IdOf(e[2]) : e \in timeList}'
      /\ \A e \in timeList', f \in expired' : e[2] # f[2]
      /\ HeapInv'
  BY <1>1, CancelStep
<1>3. ASSUME NEW b \in DOMAIN heap
      PROVE  /\ b \notin DOMAIN heap' => \E e \in timeList \cup expired : e[2] = b
             /\ (\E e \in timeList' \cup expired' : e[2] = b) =>
                    \E e \in timeList \cup expired : e[2] = b
  <2>1. <<heap[b].expiration, b>>[2] = b
    OBVIOUS
  <2>2. b \notin DOMAIN heap' => <<heap[b].expiration, b>> \in timeList
    BY <1>2
  <2>3. b \notin DOMAIN heap' => \E e \in timeList \cup expired : e[2] = b
    BY <2>1, <2>2
  <2> QED
    BY <1>1, <1>2, <2>3
<1>4. /\ functors' \in Seq(Calls)
      /\ \A k \in 1 .. Len(functors') :
             functors'[k].op = "add" =>
                 /\ functors'[k].timer \in DOMAIN heap'
                 /\ \A e \in timeList' \cup expired' : e[2] # functors'[k].timer
      /\ \A j, k \in 1 .. Len(functors') :
             (/\ functors'[j].op = "add"
              /\ functors'[k].op = "add"
              /\ functors'[j].timer = functors'[k].timer) => j = k
  BY <1>3, QueueKept
<1>5. TypeOK'
  BY <1>1, <1>2, <1>4 DEF Core, ListsAgree, TypeOK
<1>6. BatchInv'
  BY <1>1, <1>2, <1>4 DEF Core, BatchInv
<1> QED
  BY <1>2, <1>4, <1>5, <1>6 DEF Core, ListsAgree

(* reset(): of the timers of the batch those that restart are kept, with a *)
(* new expiration, and enter the lists; the others are deleted.            *)
LEMMA ResetStep ==
    ASSUME Core, Reset
    PROVE  /\ DOMAIN heap' \subseteq DOMAIN heap
           /\ \A a \in DOMAIN heap :
                  a \in DOMAIN heap' <=> (\A e \in expired : e[2] = a => Restarts(a))
           /\ \A a \in DOMAIN heap' :
                  /\ heap'[a] \in [expiration : Int, interval : Intervals, sequence : Sequences]
                  /\ heap'[a].expiration \in Nat
                  /\ heap'[a].sequence = heap[a].sequence
                  /\ heap'[a].interval = heap[a].interval
                  /\ (\A e \in expired : e[2] # a) => heap'[a] = heap[a]
           /\ timeList \subseteq timeList'
           /\ \A e \in expired : e[2] \in DOMAIN heap' =>
                  /\ <<heap'[e[2]].expiration, e[2]>> \in timeList'
                  /\ IdOf(e[2]) \in activeTimers'
           /\ \A x \in timeList' : x \in timeList \/
                  \E e \in expired :
                      e[2] \in DOMAIN heap' /\ x = <<heap'[e[2]].expiration, e[2]>>
           /\ activeTimers \subseteq activeTimers'
           /\ \A x \in activeTimers' : x \in activeTimers \/
                  \E e \in expired : e[2] \in DOMAIN heap' /\ x = IdOf(e[2])
           /\ expired' = {} /\ calling' = FALSE /\ toRun = {} /\ toRun' = {} /\ calling
           /\ UNCHANGED <<now, jumps, polled, numCreated, canceling, snapshot, functors,
                          adding, ids, cancelled, done>>
<1> USE TimerQueueAssumption
<1> DEFINE again == {e[2] : e \in {f \in expired : Restarts(f[2])}}
           gone == {e[2] : e \in expired} \ again
<1>1. /\ heap' = [a \in DOMAIN heap \ gone |->
                     IF a \in again
                        THEN [heap[a] EXCEPT !.expiration = snapshot + heap[a].interval]
                        ELSE heap[a]]
      /\ timeList' = timeList \cup {<<snapshot + heap[a].interval, a>> : a \in again}
      /\ activeTimers' = activeTimers \cup {IdOf(a) : a \in again}
      /\ expired' = {} /\ calling' = FALSE /\ toRun = {} /\ toRun' = {} /\ calling
      /\ UNCHANGED <<now, jumps, polled, numCreated, canceling, snapshot, functors,
                     adding, ids, cancelled, done>>
  BY DEF Reset, clock, history
<1>2. /\ \A a : a \in again <=> Restarts(a) /\ \E e \in expired : e[2] = a
      /\ \A a : a \in gone <=> ~Restarts(a) /\ \E e \in expired : e[2] = a
  OBVIOUS
<1> HIDE DEF again, gone
<1>3. \A e \in expired : e[2] \in DOMAIN heap
  BY DEF Core, ListsAgree
<1>4. again \subseteq DOMAIN heap \ gone
  BY <1>2, <1>3
<1>5. DOMAIN heap' = DOMAIN heap \ gone
  BY <1>1
<1>6. ASSUME NEW a \in DOMAIN heap'
      PROVE  /\ heap'[a] \in [expiration : Int, interval : Intervals, sequence : Sequences]
             /\ heap'[a].expiration \in Nat
             /\ heap'[a].sequence = heap[a].sequence
             /\ heap'[a].interval = heap[a].interval
             /\ a \in again => heap'[a].expiration = snapshot + heap[a].interval
             /\ a \notin again => heap'[a] = heap[a]
  <2>1. /\ heap[a] \in [expiration : Int, interval : Intervals, sequence : Sequences]
        /\ heap[a].expiration \in Nat /\ heap[a].interval \in Nat /\ snapshot \in Nat
    <3>1. heap[a] \in [expiration : Int, interval : Intervals, sequence : Sequences]
      BY <1>5 DEF Core, ListsAgree, TypeOK
    <3>2. heap[a].expiration \in Nat /\ snapshot \in 0 .. MaxTime
      BY <1>5 DEF Core, ListsAgree, TypeOK, HeapInv
    <3>3. heap[a].interval \in Intervals /\ Intervals \subseteq Nat /\ 0 .. MaxTime \subseteq Nat
      BY <3>1
    <3> QED
      BY <3>1, <3>2, <3>3, Zenon
  <2>2. CASE a \in again
    <3>1. heap'[a] = [heap[a] EXCEPT !.expiration = snapshot + heap[a].interval]
      BY <1>1, <1>5, <2>2
    <3> QED
      BY <2>1, <2>2, <3>1
  <2>3. CASE a \notin again
    BY <1>1, <1>5, <2>1, <2>3
  <2> QED
    BY <2>2, <2>3
<1>7. ASSUME NEW e \in expired, e[2] \in DOMAIN heap'
      PROVE  /\ <<heap'[e[2]].expiration, e[2]>> \in timeList'
             /\ IdOf(e[2]) \in activeTimers'
  <2>1. e[2] \in again
    BY <1>2, <1>5, <1>7
  <2> QED
    BY <1>1, <1>6, <1>7, <2>1
<1>8. ASSUME NEW x \in timeList', x \notin timeList
      PROVE  \E e \in expired : e[2] \in DOMAIN heap' /\ x = <<heap'[e[2]].expiration, e[2]>>
  <2>1. PICK a \in again : x = <<snapshot + heap[a].interval, a>>
    BY <1>1, <1>8
  <2> QED
    BY <1>2, <1>4, <1>5, <1>6, <2>1
<1>9. ASSUME NEW x \in activeTimers', x \notin activeTimers
      PROVE  \E e \in expired : e[2] \in DOMAIN heap' /\ x = IdOf(e[2])
  <2>1. PICK a \in again : x = IdOf(a)
    BY <1>1, <1>9
  <2> QED
    BY <1>2, <1>4, <1>5, <2>1
<1>10. /\ DOMAIN heap' \subseteq DOMAIN heap
       /\ \A a \in DOMAIN heap :
              a \in DOMAIN heap' <=> (\A e \in expired : e[2] = a => Restarts(a))
  BY <1>2, <1>5
<1>11. \A a : (\A e \in expired : e[2] # a) => a \notin again
  BY <1>2
<1> QED
  BY <1>1, <1>6, <1>7, <1>8, <1>9, <1>10, <1>11

(* Each step keeps the lists, the heap, the batch and the queue together.  *)
LEMMA CoreStep == Core /\ [Next]_vars => Core'
<1> SUFFICES ASSUME Core, [Next]_vars PROVE Core'
  OBVIOUS
<1> USE TimerQueueAssumption
<1>0. TypeOK /\ HeapInv /\ now \in Nat
  BY DEF Core, ListsAgree, TypeOK
<1>1. ASSUME NEW a \in Addrs, NEW d \in Delays, NEW i \in Intervals,
             LoopAddTimer(a, now + d, i)
      PROVE  Core'
  <2> DEFINE t == Timer(now + d, i)
  <2>1. /\ a \in Addrs \ DOMAIN heap /\ now + d \in Nat
        /\ heap' = Alloc(a, Timer(now + d, i))
        /\ numCreated < MaxTimers /\ numCreated' = numCreated + 1
    BY <1>0, <1>1 DEF LoopAddTimer
  <2>2. /\ DOMAIN heap' = DOMAIN heap \cup {a}
        /\ heap'[a] = t
        /\ \A b \in DOMAIN heap : heap'[b] = heap[b]
        /\ \A b \in DOMAIN heap' :
               heap'[b] \in [expiration : Int, interval : Intervals, sequence : Sequences]
        /\ DOMAIN heap' \subseteq Addrs
        /\ numCreated' \in 0 .. MaxTimers
        /\ HeapInv'
    BY <1>0, <2>1, AllocStep
  <2>3. t \in [expiration : Nat, interval : Intervals, sequence : Sequences]
    BY <1>0, <2>1 DEF Timer, TypeOK, Sequences
  <2> HIDE DEF t
  <2>4. /\ tfd' \in Int /\ tfd' >= Off
        /\ timeList' \subseteq Entries
        /\ activeTimers' \subseteq TimerIds
        /\ \A e \in timeList' \cup expired' : e[2] \in DOMAIN heap'
        /\ \A e \in timeList' : e[1] = heap'[e[2]].expiration
        /\ activeTimers' = {IdOf(e[2]) : e \in timeList}'
        /\ \A e \in timeList', f \in expired' : e[2] # f[2]
    <3>1. AddTimerInLoop(a, t) /\ expired' = expired /\ now' = now
      BY <1>1 DEF LoopAddTimer, t, batch, clock
    <3>2. \A e \in timeList \cup expired : e[2] # a
      BY <2>1 DEF Core, ListsAgree
    <3> QED
      BY <2>1, <2>2, <2>3, <3>1, <3>2, AddStep
  <2>5. TypeOK'
    <3>1. ids' \subseteq TimerIds
      BY <1>0, <1>1 DEF LoopAddTimer, TypeOK, TimerIds, Sequences
    <3> QED
      BY <1>0, <1>1, <2>2, <2>4, <3>1 DEF LoopAddTimer, TypeOK, batch, clock, history
  <2>6. BatchInv'
    BY <1>1, <2>2 DEF LoopAddTimer, Core, ListsAgree, BatchInv, batch
  <2>7. \A k \in 1 .. Len(functors') :
            functors'[k].op = "add" =>
                /\ functors'[k].timer \in DOMAIN heap'
                /\ \A e \in timeList' \cup expired' : e[2] # functors'[k].timer
    BY <1>1, <2>1, <2>2 DEF LoopAddTimer, Core, ListsAgree, AddTimerInLoop, batch
  <2> QED
    BY <2>2, <2>4, <2>5, <2>6, <2>7 DEF Core, ListsAgree
<1>2. ASSUME NEW a \in Addrs, NEW d \in Delays, NEW i \in Intervals, NEW c \in Clients,
             ClientAddTimer(c, a, now + d, i)
      PROVE  Core'
  <2>1. /\ a \in Addrs \ DOMAIN heap /\ now + d \in Nat
        /\ heap' = Alloc(a, Timer(now + d, i))
        /\ numCreated < MaxTimers /\ numCreated' = numCreated + 1
    BY <1>0, <1>2 DEF ClientAddTimer
  <2>2. /\ DOMAIN heap' = DOMAIN heap \cup {a}
        /\ \A b \in DOMAIN heap : heap'[b] = heap[b]
        /\ \A b \in DOMAIN heap' :
               heap'[b] \in [expiration : Int, interval : Intervals, sequence : Sequences]
        /\ DOMAIN heap' \subseteq Addrs
        /\ numCreated' \in 0 .. MaxTimers
        /\ HeapInv'
    BY <1>0, <2>1, AllocStep
  <2> DEFINE x == [op |-> "add", timer |-> a]
  <2>3. x \in Calls /\ x.op = "add" /\ x.timer = a
    BY DEF Calls
  <2> HIDE DEF x
  <2>4. /\ functors' \in Seq(Calls)
        /\ Len(functors') = Len(functors) + 1
        /\ \A k \in 1 .. Len(functors) : functors'[k] = functors[k]
        /\ functors'[Len(functors) + 1] = x
        /\ Len(functors) \in Nat
    BY <1>0, <1>2, <2>3, QueueAppend DEF ClientAddTimer, TypeOK, x
  <2>5. UNCHANGED <<timeList, activeTimers, expired, calling>>
    BY <1>2 DEF ClientAddTimer, lists, batch
  <2>6. TypeOK'
    <3>1. adding' \in [Clients -> TimerIds \cup {NoTimer}]
      BY <1>0, <1>2, <2>1 DEF ClientAddTimer, TypeOK, TimerIds, Sequences
    <3> QED
      BY <1>0, <1>2, <2>2, <2>4, <3>1
         DEF ClientAddTimer, TypeOK, batch, clock, history, lists
  <2>7. \A e \in timeList' \cup expired' : e[2] \in DOMAIN heap /\ heap'[e[2]] = heap[e[2]]
    BY <2>2, <2>5 DEF Core, ListsAgree
  <2>8. BatchInv'
    <3>1. /\ ~calling' => expired' = {}
          /\ \A e \in expired' : e[1] = heap'[e[2]].expiration
      BY <2>5, <2>7 DEF Core, BatchInv
    <3>2. ASSUME NEW j \in 1 .. Len(functors'), NEW k \in 1 .. Len(functors'),
                 functors'[j].op = "add", functors'[k].op = "add",
                 functors'[j].timer = functors'[k].timer
          PROVE  j = k
      <4>1. \A l \in 1 .. Len(functors) : functors'[l].op = "add" => functors'[l].timer # a
        BY <2>1, <2>4 DEF Core, ListsAgree
      <4> QED
        BY <2>3, <2>4, <3>2, <4>1 DEF Core, BatchInv
    <3> QED
      BY <3>1, <3>2 DEF BatchInv
  <2>9. \A k \in 1 .. Len(functors') :
            functors'[k].op = "add" =>
                /\ functors'[k].timer \in DOMAIN heap'
                /\ \A e \in timeList' \cup expired' : e[2] # functors'[k].timer
    BY <2>1, <2>2, <2>3, <2>4, <2>5, <2>7 DEF Core, ListsAgree
  <2>10. activeTimers' = {IdOf(e[2]) : e \in timeList}'
    BY <2>5, <2>7 DEF Core, ListsAgree, IdOf
  <2> QED
    <3>1. /\ \A e \in timeList' \cup expired' : e[2] \in DOMAIN heap'
          /\ \A e \in timeList' : e[1] = heap'[e[2]].expiration
          /\ \A e \in timeList', f \in expired' : e[2] # f[2]
      BY <2>2, <2>5, <2>7 DEF Core, ListsAgree
    <3>2. ListsAgree'
      BY <2>6, <2>9, <2>10, <3>1, Zenon DEF ListsAgree
    <3> QED
      BY <2>2, <2>8, <3>2, Zenon DEF Core
<1>3. ASSUME NEW id \in ids, LoopCancel(id) PROVE Core'
  BY <1>0, <1>3, CancelCore DEF LoopCancel, TypeOK
<1>4. ASSUME NEW id \in ids, NEW c \in Clients, ClientCancel(c, id) PROVE Core'
  <2> DEFINE x == [op |-> "cancel", id |-> id]
  <2>1. x \in Calls /\ x.op = "cancel"
    BY <1>0 DEF Calls, TypeOK
  <2> HIDE DEF x
  <2>2. /\ functors' \in Seq(Calls)
        /\ Len(functors') = Len(functors) + 1
        /\ \A k \in 1 .. Len(functors) : functors'[k] = functors[k]
        /\ functors'[Len(functors) + 1] = x
        /\ Len(functors) \in Nat
    BY <1>0, <1>4, <2>1, QueueAppend DEF ClientCancel, TypeOK, x
  <2>3. \A k \in 1 .. Len(functors') :
            functors'[k].op = "add" => k \in 1 .. Len(functors) /\ functors'[k] = functors[k]
    BY <2>1, <2>2
  <2>4. /\ UNCHANGED <<heap, numCreated, timeList, activeTimers, expired, calling>>
        /\ TypeOK'
    BY <1>0, <1>4, <2>2 DEF ClientCancel, TypeOK, lists, batch, clock, history
  <2>5. HeapInv'
    BY <1>0, <2>4 DEF HeapInv
  <2>6. BatchInv'
    BY <2>3, <2>4 DEF Core, BatchInv
  <2>7. \A k \in 1 .. Len(functors') :
            functors'[k].op = "add" =>
                /\ functors'[k].timer \in DOMAIN heap'
                /\ \A e \in timeList' \cup expired' : e[2] # functors'[k].timer
    BY <2>3, <2>4 DEF Core, ListsAgree
  <2> QED
    BY <2>4, <2>5, <2>6, <2>7 DEF Core, ListsAgree, IdOf
<1>5. ASSUME NEW c \in Clients, ClientAddReturns(c) PROVE Core'
  <2>1. adding[c] \in TimerIds /\ adding[c][1] \in Addrs
    BY <1>0, <1>5 DEF ClientAddReturns, TypeOK, TimerIds
  <2>2. ids' \subseteq TimerIds /\ adding' \in [Clients -> TimerIds \cup {NoTimer}]
    BY <1>0, <1>5, <2>1 DEF ClientAddReturns, TypeOK, TimerIds
  <2>3. UNCHANGED <<now, jumps, tfd, polled, heap, numCreated, timeList, activeTimers,
                    canceling, calling, expired, toRun, snapshot, functors, cancelled, done>>
    BY <1>5 DEF ClientAddReturns, lists, batch, clock, history
  <2>4. TypeOK'
    BY <1>0, <2>2, <2>3 DEF TypeOK
  <2> QED
    BY <2>3, <2>4 DEF Core, ListsAgree, HeapInv, BatchInv, IdOf
<1>6. CASE PollTimerfd
  <2>1. /\ UNCHANGED <<heap, numCreated, timeList, activeTimers, calling, expired, functors>>
        /\ TypeOK'
    BY <1>0, <1>6 DEF PollTimerfd, TypeOK, lists, batch, clock, history
  <2> QED
    BY <2>1 DEF Core, ListsAgree, HeapInv, BatchInv, IdOf
<1>7. ASSUME NEW e \in toRun, RunTimer(e) PROVE Core'
  <2>1. UNCHANGED <<now, jumps, tfd, polled, heap, numCreated, timeList, activeTimers,
                    canceling, calling, expired, snapshot, functors, adding, ids, cancelled>>
    BY <1>7 DEF RunTimer, lists, clock
  <2>2. e \in expired /\ e[2] \in DOMAIN heap
    BY <1>0 DEF TypeOK, Core, ListsAgree
  <2>3. heap[e[2]].sequence \in Sequences
    BY <1>0, <2>2 DEF TypeOK
  <2>4. done' \subseteq Sequences /\ toRun' \subseteq expired
    BY <1>0, <1>7, <2>3 DEF TypeOK, RunTimer
  <2>5. TypeOK'
    BY <1>0, <2>1, <2>4 DEF TypeOK
  <2> QED
    BY <2>1, <2>5 DEF Core, ListsAgree, HeapInv, BatchInv, IdOf
<1>8. CASE Tick \/ SetClockBack
  <2>1. UNCHANGED <<polled, heap, numCreated, timeList, activeTimers, canceling, calling,
                    expired, toRun, snapshot, functors, adding, ids, cancelled, done>>
    BY <1>8 DEF Tick, SetClockBack, lists, batch, history
  <2>2. /\ now' \in 0 .. MaxTime /\ jumps' \in 0 .. MaxJumps
        /\ tfd' \in Int /\ tfd' >= Off
    BY <1>0, <1>8 DEF Tick, SetClockBack, TypeOK, Off
  <2>3. TypeOK'
    BY <1>0, <2>1, <2>2 DEF TypeOK
  <2> QED
    BY <2>1, <2>3 DEF Core, ListsAgree, HeapInv, BatchInv, IdOf
<1>9. CASE UNCHANGED vars
  BY <1>9 DEF Core, ListsAgree, TypeOK, HeapInv, BatchInv, IdOf, vars
<1>10. CASE RunFunctor
  <2> DEFINE h == Head(functors)
  <2>1. /\ functors # <<>> /\ functors' = Tail(functors)
        /\ UNCHANGED <<clock, polled, numCreated, batch, adding, ids, done>>
        /\ UNCHANGED <<now, jumps, calling, expired, toRun, snapshot>>
    BY <1>10 DEF RunFunctor, clock, batch
  <2>2. /\ Len(functors) \in Nat \ {0}
        /\ h = functors[1] /\ h \in Calls
    BY <1>0, <2>1, QueueTail DEF TypeOK
  <2> HIDE DEF h
  <2>3. CASE /\ h.op = "cancel" /\ CancelInLoop(h.id) /\ UNCHANGED tfd
    <3>1. h.id \in TimerIds
      BY <2>2, <2>3 DEF Calls
    <3> QED
      BY <2>1, <2>3, <3>1, CancelCore
  <2>4. CASE /\ h.op = "add" /\ AddTimerInLoop(h.timer, heap[h.timer])
             /\ UNCHANGED <<heap, canceling, cancelled>>
    <3> DEFINE a == h.timer
    <3>1. a \in DOMAIN heap /\ a \in Addrs /\ \A e \in timeList \cup expired : e[2] # a
      BY <1>0, <2>2, <2>4 DEF Core, ListsAgree, TypeOK
    <3>2. heap[a] \in [expiration : Nat, interval : Intervals, sequence : Sequences]
      <4>1. /\ heap[a] \in [expiration : Int, interval : Intervals, sequence : Sequences]
            /\ heap[a].expiration \in Nat
        BY <1>0, <3>1 DEF TypeOK, HeapInv
      <4> QED
        BY <4>1
    <3> HIDE DEF a
    <3>3. /\ tfd' \in Int /\ tfd' >= Off
          /\ timeList' \subseteq Entries
          /\ activeTimers' \subseteq TimerIds
          /\ \A e \in timeList' \cup expired' : e[2] \in DOMAIN heap'
          /\ \A e \in timeList' : e[1] = heap'[e[2]].expiration
          /\ activeTimers' = {IdOf(e[2]) : e \in timeList}'
          /\ \A e \in timeList', f \in expired' : e[2] # f[2]
      <4>1. AddTimerInLoop(a, heap[a]) /\ heap' = heap
        BY <2>4 DEF a
      <4> QED
        BY <2>1, <3>1, <3>2, <4>1, AddStep
    <3>4. ASSUME NEW b \in DOMAIN heap
          PROVE  /\ b \notin DOMAIN heap' => \E e \in timeList \cup expired : e[2] = b
                 /\ (\E e \in timeList' \cup expired' : e[2] = b) =>
                        \/ \E e \in timeList \cup expired : e[2] = b
                        \/ /\ functors' = Tail(functors) /\ functors # <<>>
                           /\ h.op = "add" /\ b = h.timer
      <4>1. timeList' = timeList \cup {<<heap[a].expiration, a>>} /\ heap' = heap
        BY <2>4 DEF AddTimerInLoop, a
      <4> QED
        BY <2>1, <2>4, <4>1 DEF a
    <3>5. /\ functors' \in Seq(Calls)
          /\ \A k \in 1 .. Len(functors') :
                 functors'[k].op = "add" =>
                     /\ functors'[k].timer \in DOMAIN heap'
                     /\ \A e \in timeList' \cup expired' : e[2] # functors'[k].timer
          /\ \A j, k \in 1 .. Len(functors') :
                 (/\ functors'[j].op = "add"
                  /\ functors'[k].op = "add"
                  /\ functors'[j].timer = functors'[k].timer) => j = k
      BY <2>1, <2>2, <3>4, QueueKept
    <3>6. TypeOK'
      BY <1>0, <2>1, <2>4, <3>3, <3>5 DEF TypeOK
    <3>7. HeapInv'
      BY <1>0, <2>1, <2>4 DEF HeapInv
    <3>8. BatchInv'
      BY <2>1, <2>4, <3>5 DEF Core, BatchInv
    <3> QED
      BY <3>3, <3>5, <3>6, <3>7, <3>8 DEF Core, ListsAgree
  <2> QED
    BY <1>10, <2>3, <2>4 DEF RunFunctor, h
<1>11. CASE HandleRead
  <2> DEFINE due == {e \in timeList : e[1] <= now}
  <2>1. /\ timeList' = timeList \ due
        /\ activeTimers' = activeTimers \ {IdOf(e[2]) : e \in due}
        /\ expired' = due /\ toRun' = due /\ snapshot' = now
        /\ calling' = TRUE /\ polled' = FALSE
        /\ tfd' = IF tfd = 0 THEN Off ELSE tfd
        /\ UNCHANGED <<now, jumps, heap, numCreated, canceling, functors, adding, ids,
                       cancelled, done>>
    BY <1>11 DEF HandleRead, clock, history
  <2>2. expired = {}
    BY <1>11 DEF HandleRead, Core, BatchInv
  <2>3. due \subseteq timeList
    OBVIOUS
  <2> HIDE DEF due
  <2>4. TypeOK'
    <3>1. /\ timeList' \subseteq Entries /\ activeTimers' \subseteq TimerIds
          /\ expired' \subseteq Entries /\ toRun' \subseteq expired'
      BY <1>0, <2>1, <2>3 DEF TypeOK
    <3>2. tfd' \in Int /\ tfd' >= Off
      <4>1. tfd \in Int /\ tfd >= Off /\ tfd' = IF tfd = 0 THEN Off ELSE tfd
        BY <1>0, <2>1 DEF TypeOK
      <4> QED
        BY <4>1 DEF Off
    <3>3. polled' \in BOOLEAN /\ calling' \in BOOLEAN
      BY <2>1, Zenon
    <3> QED
      BY <1>0, <2>1, <3>1, <3>2, <3>3 DEF TypeOK
  <2>5. \A e, f \in timeList : e[2] = f[2] => e = f
    <3>1. \A e \in timeList : e = <<heap[e[2]].expiration, e[2]>>
      BY <1>0 DEF Core, ListsAgree, TypeOK, Entries
    <3> QED
      BY <3>1
  <2>6. activeTimers' = {IdOf(e[2]) : e \in timeList}'
    <3>1. activeTimers = {IdOf(e[2]) : e \in timeList}
      BY DEF Core, ListsAgree
    <3>2. \A e, f \in timeList : IdOf(e[2]) = IdOf(f[2]) => e = f
      BY <2>5 DEF IdOf
    <3>3. \A e \in timeList : IdOf(e[2])' = IdOf(e[2])
      BY <2>1 DEF IdOf
    <3> QED
      BY <2>1, <2>3, <3>1, <3>2, <3>3
  <2>7. \A e \in timeList', f \in expired' : e[2] # f[2]
    BY <2>1, <2>3, <2>5
  <2>8. timeList' \cup expired' = timeList \cup expired
    BY <2>1, <2>2, <2>3
  <2>9. HeapInv'
    BY <1>0, <2>1 DEF HeapInv
  <2>10. BatchInv'
    BY <2>1, <2>3 DEF Core, ListsAgree, BatchInv
  <2>11. /\ \A e \in timeList' \cup expired' : e[2] \in DOMAIN heap'
         /\ \A e \in timeList' : e[1] = heap'[e[2]].expiration
         /\ \A k \in 1 .. Len(functors') :
                functors'[k].op = "add" =>
                    /\ functors'[k].timer \in DOMAIN heap'
                    /\ \A e \in timeList' \cup expired' : e[2] # functors'[k].timer
    BY <2>1, <2>8 DEF Core, ListsAgree
  <2> QED
    BY <2>4, <2>6, <2>7, <2>9, <2>10, <2>11 DEF Core, ListsAgree
<1>12. CASE Reset
  <2>1. /\ DOMAIN heap' \subseteq DOMAIN heap
        /\ \A a \in DOMAIN heap :
               a \in DOMAIN heap' <=> (\A e \in expired : e[2] = a => Restarts(a))
        /\ \A a \in DOMAIN heap' :
               /\ heap'[a] \in [expiration : Int, interval : Intervals, sequence : Sequences]
               /\ heap'[a].expiration \in Nat
               /\ heap'[a].sequence = heap[a].sequence
               /\ (\A e \in expired : e[2] # a) => heap'[a] = heap[a]
        /\ timeList \subseteq timeList'
        /\ \A e \in expired : e[2] \in DOMAIN heap' => IdOf(e[2]) \in activeTimers'
        /\ \A e \in expired : e[2] \in DOMAIN heap' => <<heap'[e[2]].expiration, e[2]>> \in timeList'
        /\ \A x \in timeList' : x \in timeList \/
               \E e \in expired :
                   e[2] \in DOMAIN heap' /\ x = <<heap'[e[2]].expiration, e[2]>>
        /\ activeTimers \subseteq activeTimers'
        /\ \A x \in activeTimers' : x \in activeTimers \/
               \E e \in expired : e[2] \in DOMAIN heap' /\ x = IdOf(e[2])
        /\ expired' = {} /\ calling' = FALSE /\ toRun' = {}
        /\ UNCHANGED <<now, jumps, polled, numCreated, canceling, snapshot, functors,
                       adding, ids, cancelled, done>>
    BY <1>12, ResetStep
  <2>2. \A e \in timeList : e[2] \in DOMAIN heap' /\ heap'[e[2]] = heap[e[2]]
    BY <2>1 DEF Core, ListsAgree
  <2>3. \A e \in timeList' : e[2] \in DOMAIN heap' /\ e[1] = heap'[e[2]].expiration
    BY <2>1, <2>2 DEF Core, ListsAgree
  <2>4. timeList' \subseteq Entries /\ activeTimers' \subseteq TimerIds
    <3>1. \A x \in timeList' : x \in Entries
      BY <1>0, <2>1 DEF TypeOK, Entries
    <3>2. \A a \in DOMAIN heap : IdOf(a) \in TimerIds
      BY <1>0 DEF TypeOK, IdOf, TimerIds
    <3>3. \A x \in activeTimers' : x \in TimerIds
      BY <1>0, <2>1, <3>2 DEF TypeOK
    <3> QED
      BY <3>1, <3>3
  <2>5. tfd' \in Int /\ tfd' >= Off
    <3>1. CASE timeList' = {}
      BY <1>0, <1>12, <3>1 DEF Reset, TypeOK
    <3>2. CASE timeList' # {}
      <4>1. \A e \in timeList' : e[1] \in Nat
        BY <2>1, <2>3
      <4>2. Earliest(timeList') \in Nat
        BY <3>2, <4>1, EarliestIsFirst
      <4>3. tfd' = HowMuchTimeFromNow(Earliest(timeList'))
        BY <1>12, <3>2 DEF Reset
      <4> QED
        BY <1>0, <4>2, <4>3 DEF HowMuchTimeFromNow, Off
    <3> QED
      BY <3>1, <3>2
  <2>6. TypeOK'
    <3>1. calling' \in BOOLEAN
      BY <2>1, Zenon
    <3>2. DOMAIN heap' \subseteq Addrs
      BY <1>0, <2>1 DEF TypeOK
    <3> QED
      BY <1>0, <2>1, <2>4, <2>5, <3>1, <3>2 DEF TypeOK
  <2>7. HeapInv'
    BY <1>0, <2>1 DEF HeapInv
  <2>8. BatchInv'
    BY <2>1 DEF Core, BatchInv
  <2>9. activeTimers' = {IdOf(e[2]) : e \in timeList}'
    <3>1. \A a \in DOMAIN heap' : IdOf(a)' = IdOf(a)
      BY <2>1 DEF IdOf
    <3>2. ASSUME NEW e \in timeList' PROVE IdOf(e[2])' \in activeTimers'
      <4>1. CASE e \in timeList
        BY <2>1, <2>3, <3>1, <4>1 DEF Core, ListsAgree
      <4>2. ASSUME NEW f \in expired, f[2] \in DOMAIN heap', e = <<heap'[f[2]].expiration, f[2]>>
            PROVE  IdOf(e[2])' \in activeTimers'
        <5>1. e[2] = f[2]
          BY <4>2
        <5> QED
          BY <2>1, <3>1, <4>2, <5>1
      <4> QED
        BY <2>1, <4>1, <4>2
    <3>3. ASSUME NEW x \in activeTimers' PROVE \E e \in timeList' : x = IdOf(e[2])'
      <4>1. CASE x \in activeTimers
        <5>1. PICK e \in timeList : x = IdOf(e[2])
          BY <4>1 DEF Core, ListsAgree
        <5> QED
          BY <2>1, <2>2, <3>1, <5>1
      <4>2. ASSUME NEW f \in expired, f[2] \in DOMAIN heap', x = IdOf(f[2])
            PROVE  \E e \in timeList' : x = IdOf(e[2])'
        <5> DEFINE e == <<heap'[f[2]].expiration, f[2]>>
        <5>1. e \in timeList' /\ e[2] = f[2]
          BY <2>1, <4>2
        <5> QED
          BY <3>1, <4>2, <5>1
      <4> QED
        BY <2>1, <4>1, <4>2
    <3> QED
      BY <3>2, <3>3
  <2>10. ASSUME NEW k \in 1 .. Len(functors'), functors'[k].op = "add"
         PROVE  /\ functors'[k].timer \in DOMAIN heap'
                /\ \A e \in timeList' \cup expired' : e[2] # functors'[k].timer
    <3> DEFINE b == functors[k].timer
    <3>1. /\ functors' = functors /\ b \in DOMAIN heap
          /\ \A e \in timeList \cup expired : e[2] # b
      BY <2>1, <2>10 DEF Core, ListsAgree
    <3> HIDE DEF b
    <3>2. b \in DOMAIN heap'
      BY <2>1, <3>1
    <3>3. \A e \in timeList' : e[2] # b
      BY <2>1, <3>1
    <3> QED
      BY <2>1, <3>1, <3>2, <3>3 DEF b
  <2> QED
    BY <2>1, <2>3, <2>6, <2>7, <2>8, <2>9, <2>10 DEF Core, ListsAgree
<1> QED
  BY <1>1, <1>2, <1>3, <1>4, <1>5, <1>6, <1>7, <1>8, <1>9, <1>10, <1>11, <1>12 DEF Next

LEMMA CoreInit == Init => Core
<1> SUFFICES ASSUME Init PROVE Core
  OBVIOUS
<1> USE TimerQueueAssumption
<1>1. /\ DOMAIN heap = {} /\ timeList = {} /\ expired = {} /\ activeTimers = {}
      /\ functors = <<>> /\ Len(functors) = 0
  BY DEF Init
<1>2. TypeOK
  <2>1. calling \in BOOLEAN /\ polled \in BOOLEAN
    BY Zenon DEF Init
  <2>2. adding \in [Clients -> TimerIds \cup {NoTimer}]
    BY DEF Init
  <2> QED
    BY <1>1, <2>1, <2>2 DEF Init, TypeOK, Off
<1>3. HeapInv /\ BatchInv
  BY <1>1 DEF HeapInv, BatchInv
<1> QED
  BY <1>1, <1>2, <1>3 DEF Core, ListsAgree

(* m_timeList and m_activeTimers are views of the same live timers at each *)
(* moment, and no address the loop thread will follow dangles, whichever   *)
(* threads add and cancel timers and whichever addresses are used again.   *)
THEOREM ListsAlwaysAgree == Spec => []ListsAgree
  BY CoreInit, CoreStep, PTL DEF Spec, Core

-------------------------------------------------------------------------------
(* The ends of timers.                                                     *)

(* What a step does to the queue, as a set of addresses.                   *)
LEMMA QueuedAppend ==
    ASSUME TypeOK, NEW x \in Calls, functors' = Append(functors, x), NEW b
    PROVE  Queued(b)' <=> Queued(b) \/ (x.op = "add" /\ x.timer = b)
<1>1. /\ functors' \in Seq(Calls)
      /\ Len(functors') = Len(functors) + 1
      /\ \A k \in 1 .. Len(functors) : functors'[k] = functors[k]
      /\ functors'[Len(functors) + 1] = x
      /\ Len(functors) \in Nat
  BY QueueAppend DEF TypeOK
<1>2. Queued(b) => Queued(b)'
  BY <1>1 DEF Queued
<1>3. x.op = "add" /\ x.timer = b => Queued(b)'
  BY <1>1 DEF Queued
<1>4. Queued(b)' => Queued(b) \/ (x.op = "add" /\ x.timer = b)
  BY <1>1 DEF Queued
<1> QED
  BY <1>2, <1>3, <1>4

LEMMA QueuedTail ==
    ASSUME TypeOK, functors # <<>>, functors' = Tail(functors), NEW b
    PROVE  Queued(b) <=> Queued(b)' \/ (Head(functors).op = "add" /\ Head(functors).timer = b)
<1>1. /\ Len(functors') = Len(functors) - 1
      /\ \A k \in 1 .. Len(functors') :
             k + 1 \in 1 .. Len(functors) /\ functors'[k] = functors[k + 1]
      /\ Len(functors) \in Nat \ {0}
      /\ Head(functors) = functors[1]
  BY QueueTail DEF TypeOK
<1>2. Queued(b)' => Queued(b)
  BY <1>1 DEF Queued
<1>3. Head(functors).op = "add" /\ Head(functors).timer = b => Queued(b)
  BY <1>1 DEF Queued
<1>4. ASSUME Queued(b), ~(Head(functors).op = "add" /\ Head(functors).timer = b)
      PROVE  Queued(b)'
  <2>1. PICK k \in 1 .. Len(functors) : functors[k].op = "add" /\ functors[k].timer = b
    BY <1>4 DEF Queued
  <2>2. k # 1
    BY <1>1, <1>4, <2>1
  <2>3. k - 1 \in 1 .. Len(functors') /\ (k - 1) + 1 = k
    BY <1>1, <2>2
  <2>4. functors'[k - 1] = functors[k]
    BY <1>1, <2>3
  <2> QED
    BY <2>1, <2>3, <2>4 DEF Queued
<1> QED
  BY <1>2, <1>3, <1>4

(* What Core says of the queue, address by address.                        *)
LEMMA QueuedLive ==
    ASSUME Core, NEW b, Queued(b)
    PROVE  b \in DOMAIN heap /\ \A e \in timeList \cup expired : e[2] # b
  BY DEF Core, ListsAgree, Queued

(* Two entries of the list or of the batch for the same timer are the      *)
(* same, and timers differ in their sequence numbers.                      *)
LEMMA EntriesDiffer ==
    ASSUME Core
    PROVE  /\ \A e, f \in timeList : e[2] = f[2] => e = f
           /\ \A e, f \in expired : e[2] = f[2] => e = f
           /\ \A a, b \in DOMAIN heap : heap[a].sequence = heap[b].sequence => a = b
           /\ \A a \in DOMAIN heap : heap[a].sequence \in 0 .. numCreated - 1
<1>1. \A e \in timeList \cup expired : e = <<heap[e[2]].expiration, e[2]>>
  BY DEF Core, ListsAgree, TypeOK, Entries, BatchInv
<1>2. \A a \in DOMAIN heap : heap[a].sequence \in 0 .. numCreated - 1
  BY TimerQueueAssumption DEF Core, ListsAgree, TypeOK, HeapInv, Sequences
<1>3. \A e, f \in timeList \cup expired : e[2] = f[2] => e = f
  BY <1>1
<1> QED
  BY <1>2, <1>3 DEF Core, HeapInv

(* A step that loses no timer: each one on the heap has come to its end,   *)
(* or stays on it, and known if it was; a new one is known.                *)
LosesNone ==
    /\ Ended \subseteq Ended'
    /\ \A b \in DOMAIN heap :
           \/ heap[b].sequence \in Ended'
           \/ /\ b \in DOMAIN heap' /\ heap'[b].sequence = heap[b].sequence
              /\ Known(b) => Known(b)'
    /\ \/ numCreated' = numCreated
       \/ /\ numCreated' = numCreated + 1
          /\ \E b \in DOMAIN heap' : Known(b)' /\ heap'[b].sequence = numCreated

(* cancelInLoop() ends the timer with the very id, and no other.           *)
LEMMA CancelEnds ==
    ASSUME Core, EndInv, NEW id \in TimerIds, CancelInLoop(id),
           UNCHANGED <<numCreated, batch, done>>, \A b : Queued(b)' <=> Queued(b)
    PROVE  EndInv' /\ LosesNone
<1>0. UNCHANGED <<calling, expired, toRun, snapshot, done, numCreated>>
  BY DEF batch
<1>1. /\ DOMAIN heap' \subseteq DOMAIN heap
      /\ \A b \in DOMAIN heap' : heap'[b] = heap[b]
      /\ \A b \in DOMAIN heap \ DOMAIN heap' : IdOf(b) = id /\ id[2] \in cancelled'
      /\ timeList' = {e \in timeList : e[2] \in DOMAIN heap'}
      /\ \A e \in timeList' \cup expired' : e[2] \in DOMAIN heap'
  BY <1>0, CancelStep
<1>2. cancelled \subseteq cancelled' /\ canceling \subseteq canceling'
  BY DEF CancelInLoop
<1>3. ASSUME cancelled' # cancelled
      PROVE  \E a \in DOMAIN heap :
                 /\ id = IdOf(a) /\ cancelled' = cancelled \cup {heap[a].sequence}
                 /\ \/ a \notin DOMAIN heap'
                    \/ (\E f \in expired : f[2] = a) /\ id \in canceling'
  <2>1. CASE id \in activeTimers
    <3>1. PICK e \in timeList : id = IdOf(e[2])
      BY <2>1 DEF Core, ListsAgree
    <3>2. e[2] \in DOMAIN heap /\ id[1] = e[2] /\ id[2] = heap[e[2]].sequence
      BY <3>1 DEF Core, ListsAgree, IdOf
    <3>3. heap' = [b \in DOMAIN heap \ {id[1]} |-> heap[b]] /\ cancelled' = cancelled \cup {id[2]}
      BY <2>1 DEF CancelInLoop, Delete
    <3>4. e[2] \notin DOMAIN heap'
      BY <3>2, <3>3
    <3> QED
      BY <3>1, <3>2, <3>3, <3>4
  <2>2. CASE id \notin activeTimers
    <3>1. /\ calling /\ id \in {IdOf(e[2]) : e \in expired}
          /\ cancelled' = cancelled \cup {id[2]} /\ canceling' = canceling \cup {id}
      BY <1>3, <2>2 DEF CancelInLoop
    <3>2. PICK f \in expired : id = IdOf(f[2])
      BY <3>1
    <3>3. f[2] \in DOMAIN heap /\ id[2] = heap[f[2]].sequence
      BY <3>2 DEF Core, ListsAgree, IdOf
    <3> QED
      BY <3>1, <3>2, <3>3
  <2> QED
    BY <2>1, <2>2
<1>4. LosesNone
  <2>1. Ended \subseteq Ended'
    BY <1>0, <1>2 DEF Ended
  <2>2. ASSUME NEW b \in DOMAIN heap
        PROVE  \/ heap[b].sequence \in Ended'
               \/ /\ b \in DOMAIN heap' /\ heap'[b].sequence = heap[b].sequence
                  /\ Known(b) => Known(b)'
    <3>1. CASE b \in DOMAIN heap'
      BY <1>0, <1>1, <3>1 DEF Known
    <3>2. CASE b \notin DOMAIN heap'
      BY <1>1, <3>2 DEF Ended, IdOf
    <3> QED
      BY <3>1, <3>2
  <2> QED
    BY <1>0, <2>1, <2>2 DEF LosesNone
<1>5. EndInv'
  <2>1. \A a \in DOMAIN heap, b \in DOMAIN heap : heap[a].sequence = heap[b].sequence => a = b
    BY EntriesDiffer
  <2>2. cancelled' \subseteq 0 .. numCreated' - 1 /\ done' \subseteq 0 .. numCreated' - 1
    <3>1. \A a \in DOMAIN heap : heap[a].sequence \in 0 .. numCreated - 1
      BY EntriesDiffer
    <3>2. cancelled \subseteq 0 .. numCreated - 1 /\ done \subseteq 0 .. numCreated - 1
      BY DEF EndInv
    <3> QED
      BY <1>0, <1>3, <3>1, <3>2
  <2>3. \A e \in timeList' : heap'[e[2]].sequence \notin cancelled' \cup done'
    BY <1>0, <1>1, <1>3, <2>1 DEF EndInv, Core, ListsAgree
  <2>4. ASSUME NEW e \in expired'
        PROVE  /\ heap'[e[2]].sequence \in cancelled' => IdOf(e[2])' \in canceling'
               /\ heap'[e[2]].sequence \in done' <=> e \notin toRun' /\ heap'[e[2]].interval = 0
    <3>1. e \in expired /\ e[2] \in DOMAIN heap /\ heap'[e[2]] = heap[e[2]] /\ e[2] \in DOMAIN heap'
      BY <1>0, <1>1
    <3>2. IdOf(e[2])' = IdOf(e[2])
      BY <3>1 DEF IdOf
    <3>3. heap[e[2]].sequence \in cancelled' => IdOf(e[2]) \in canceling'
      BY <1>2, <1>3, <2>1, <3>1 DEF EndInv
    <3> QED
      BY <1>0, <3>1, <3>2, <3>3 DEF EndInv
  <2>5. ASSUME NEW b \in DOMAIN heap', Queued(b)'
        PROVE  heap'[b].sequence \notin cancelled' \cup done'
    <3>1. Queued(b) /\ b \in DOMAIN heap /\ heap'[b] = heap[b]
      BY <1>1, <2>5
    <3>2. \A f \in expired : f[2] # b
      BY <3>1, QueuedLive
    <3> QED
      BY <1>0, <1>3, <2>1, <2>5, <3>1, <3>2 DEF EndInv
  <2> QED
    BY <2>2, <2>3, <2>4, <2>5 DEF EndInv
<1> QED
  BY <1>4, <1>5

LEMMA EndStep == Core /\ Core' /\ EndInv /\ [Next]_vars => EndInv' /\ LosesNone
<1> SUFFICES ASSUME Core, Core', EndInv, [Next]_vars PROVE EndInv' /\ LosesNone
  OBVIOUS
<1> USE TimerQueueAssumption
<1>0. /\ TypeOK /\ HeapInv /\ now \in Nat /\ numCreated \in Nat
      /\ \A e \in timeList \cup expired : e[2] \in DOMAIN heap
      /\ \A e \in timeList, f \in expired : e[2] # f[2]
      /\ \A e, f \in timeList : e[2] = f[2] => e = f
      /\ \A e, f \in expired : e[2] = f[2] => e = f
      /\ \A a, b \in DOMAIN heap : heap[a].sequence = heap[b].sequence => a = b
  <2>1. /\ \A e, f \in timeList : e[2] = f[2] => e = f
        /\ \A e, f \in expired : e[2] = f[2] => e = f
        /\ \A a, b \in DOMAIN heap : heap[a].sequence = heap[b].sequence => a = b
    BY EntriesDiffer
  <2>2. /\ TypeOK /\ HeapInv
        /\ \A e \in timeList \cup expired : e[2] \in DOMAIN heap
        /\ \A e \in timeList, f \in expired : e[2] # f[2]
    BY DEF Core, ListsAgree
  <2>3. now \in Nat /\ numCreated \in Nat
    BY <2>2 DEF TypeOK
  <2> QED
    BY <2>1, <2>2, <2>3, Zenon
<1>1. ASSUME NEW a \in Addrs, NEW w \in Nat, NEW i \in Intervals,
             a \notin DOMAIN heap, heap' = Alloc(a, Timer(w, i)),
             numCreated < MaxTimers, numCreated' = numCreated + 1,
             timeList' = timeList \/ timeList' = timeList \cup {<<w, a>>},
             \A b : Queued(b)' <=> Queued(b) \/ (timeList' = timeList /\ b = a),
             UNCHANGED <<batch, canceling, history>>
      PROVE  EndInv' /\ LosesNone
  <2>0. UNCHANGED <<calling, expired, toRun, cancelled, done>>
    BY <1>1 DEF batch, history
  <2>1. /\ DOMAIN heap' = DOMAIN heap \cup {a}
        /\ heap'[a] = Timer(w, i)
        /\ \A b \in DOMAIN heap : heap'[b] = heap[b]
    BY <1>0, <1>1, AllocStep
  <2>2. heap'[a].sequence = numCreated
    BY <2>1 DEF Timer
  <2>3. numCreated \notin cancelled \cup done
    BY <1>0 DEF EndInv
  <2>4. \A e \in timeList' : e \in timeList \/ e[2] = a
    BY <1>1
  <2>5. EndInv'
    <3>1. cancelled' \subseteq 0 .. numCreated' - 1 /\ done' \subseteq 0 .. numCreated' - 1
      BY <1>0, <1>1, <2>0 DEF EndInv
    <3>2. \A e \in timeList' : heap'[e[2]].sequence \notin cancelled' \cup done'
      BY <1>0, <2>0, <2>1, <2>2, <2>3, <2>4 DEF EndInv
    <3>3. ASSUME NEW e \in expired'
          PROVE  /\ heap'[e[2]].sequence \in cancelled' => IdOf(e[2])' \in canceling'
                 /\ heap'[e[2]].sequence \in done' <=> e \notin toRun' /\ heap'[e[2]].interval = 0
      BY <1>0, <1>1, <2>0, <2>1 DEF EndInv, IdOf
    <3>4. ASSUME NEW b \in DOMAIN heap', Queued(b)'
          PROVE  heap'[b].sequence \notin cancelled' \cup done'
      BY <1>1, <2>0, <2>1, <2>2, <2>3, <3>4, QueuedLive DEF EndInv
    <3> QED
      BY <3>1, <3>2, <3>3, <3>4 DEF EndInv
  <2>6. LosesNone
    <3>1. Ended' = Ended
      BY <1>1, <2>0 DEF Ended
    <3>2. \A b \in DOMAIN heap : b \in DOMAIN heap' /\ heap'[b].sequence = heap[b].sequence
      BY <2>1
    <3>3. \A b \in DOMAIN heap : Known(b) => Known(b)'
      BY <1>1, <2>0 DEF Known
    <3>4. a \in DOMAIN heap' /\ Known(a)'
      <4>1. CASE timeList' = timeList
        BY <1>1, <2>1, <4>1 DEF Known
      <4>2. CASE timeList' = timeList \cup {<<w, a>>}
        <5>1. <<w, a>> \in timeList' /\ <<w, a>>[2] = a
          BY <4>2
        <5> QED
          BY <2>1, <5>1 DEF Known
      <4> QED
        BY <1>1, <4>1, <4>2
    <3> QED
      BY <1>1, <2>2, <3>1, <3>2, <3>3, <3>4 DEF LosesNone
  <2> QED
    BY <2>5, <2>6
<1>2. ASSUME NEW a \in Addrs, NEW d \in Delays, NEW i \in Intervals,
             LoopAddTimer(a, now + d, i)
      PROVE  EndInv' /\ LosesNone
  <2>1. now + d \in Nat
    BY <1>0
  <2>2. \A b : Queued(b)' <=> Queued(b)
    BY <1>2 DEF LoopAddTimer, Queued
  <2>3. timeList' = timeList \cup {<<now + d, a>>}
    BY <1>2 DEF LoopAddTimer, AddTimerInLoop, Timer
  <2>4. timeList' # timeList
    <3>1. <<now + d, a>>[2] = a /\ a \notin DOMAIN heap
      BY <1>2 DEF LoopAddTimer
    <3>2. <<now + d, a>> \notin timeList
      BY <1>0, <3>1
    <3> QED
      BY <2>3, <3>2
  <2>5. /\ a \notin DOMAIN heap /\ heap' = Alloc(a, Timer(now + d, i))
        /\ numCreated < MaxTimers /\ numCreated' = numCreated + 1
        /\ UNCHANGED <<batch, canceling, history>>
    BY <1>2 DEF LoopAddTimer
  <2> QED
    BY <1>1, <2>1, <2>2, <2>3, <2>4, <2>5
<1>3. ASSUME NEW a \in Addrs, NEW d \in Delays, NEW i \in Intervals, NEW c \in Clients,
             ClientAddTimer(c, a, now + d, i)
      PROVE  EndInv' /\ LosesNone
  <2>1. now + d \in Nat
    BY <1>0
  <2> DEFINE x == [op |-> "add", timer |-> a]
  <2>2. x \in Calls /\ x.op = "add" /\ x.timer = a
    BY DEF Calls
  <2>3. functors' = Append(functors, x) /\ timeList' = timeList
    BY <1>3 DEF ClientAddTimer, lists
  <2> HIDE DEF x
  <2>4. \A b : Queued(b)' <=> Queued(b) \/ b = a
    BY <1>0, <2>2, <2>3, QueuedAppend
  <2>5. /\ a \notin DOMAIN heap /\ heap' = Alloc(a, Timer(now + d, i))
        /\ numCreated < MaxTimers /\ numCreated' = numCreated + 1
        /\ UNCHANGED <<batch, canceling, history>>
    BY <1>3 DEF ClientAddTimer
  <2> QED
    BY <1>1, <2>1, <2>3, <2>4, <2>5
<1>4. ASSUME NEW id \in ids, LoopCancel(id) PROVE EndInv' /\ LosesNone
  <2>1. \A b : Queued(b)' <=> Queued(b)
    BY <1>4 DEF LoopCancel, Queued
  <2> QED
    BY <1>0, <1>4, <2>1, CancelEnds DEF LoopCancel, TypeOK
<1>5. ASSUME UNCHANGED <<heap, numCreated, timeList, expired, toRun, canceling, cancelled, done>>,
             \A b : Queued(b)' <=> Queued(b)
      PROVE  EndInv' /\ LosesNone
  <2>1. EndInv'
    BY <1>5 DEF EndInv, IdOf
  <2>2. LosesNone
    BY <1>5 DEF LosesNone, Ended, Known
  <2> QED
    BY <2>1, <2>2
<1>6. ASSUME NEW id \in ids, NEW c \in Clients, ClientCancel(c, id)
      PROVE  EndInv' /\ LosesNone
  <2> DEFINE x == [op |-> "cancel", id |-> id]
  <2>1. x \in Calls /\ x.op # "add"
    BY <1>0 DEF Calls, TypeOK
  <2>2. functors' = Append(functors, x)
    BY <1>6 DEF ClientCancel
  <2> HIDE DEF x
  <2>3. \A b : Queued(b)' <=> Queued(b)
    BY <1>0, <2>1, <2>2, QueuedAppend
  <2> QED
    BY <1>5, <1>6, <2>3 DEF ClientCancel, lists, batch, history
<1>7. ASSUME \/ \E c \in Clients : ClientAddReturns(c)
             \/ PollTimerfd \/ Tick \/ SetClockBack \/ UNCHANGED vars
      PROVE  EndInv' /\ LosesNone
  <2>1. UNCHANGED <<heap, numCreated, timeList, expired, toRun, canceling, cancelled, done,
                    functors>>
    BY <1>7 DEF ClientAddReturns, PollTimerfd, Tick, SetClockBack, vars, lists, batch, history
  <2>2. \A b : Queued(b)' <=> Queued(b)
    BY <2>1 DEF Queued
  <2> QED
    BY <1>5, <2>1, <2>2
<1>8. CASE RunFunctor
  <2> DEFINE h == Head(functors)
  <2>1. /\ functors # <<>> /\ functors' = Tail(functors)
        /\ UNCHANGED <<clock, polled, numCreated, batch, adding, ids, done>>
    BY <1>8 DEF RunFunctor
  <2>2. h \in Calls
    BY <1>0, <2>1, QueueTail DEF TypeOK
  <2>3. \A b : Queued(b) <=> Queued(b)' \/ (h.op = "add" /\ h.timer = b)
    BY <1>0, <2>1, QueuedTail
  <2>4. CASE h.op = "cancel" /\ CancelInLoop(h.id)
    <3>1. h.id \in TimerIds
      BY <2>2, <2>4 DEF Calls
    <3>2. \A b : Queued(b)' <=> Queued(b)
      BY <2>3, <2>4
    <3> QED
      BY <2>1, <2>4, <3>1, <3>2, CancelEnds
  <2>5. CASE /\ h.op = "add" /\ AddTimerInLoop(h.timer, heap[h.timer])
             /\ UNCHANGED <<heap, canceling, cancelled>>
    <3>0. PICK a : a = h.timer
      OBVIOUS
    <3>1. Queued(a) /\ a \in DOMAIN heap
      BY <2>3, <2>5, <3>0, QueuedLive
    <3>2. /\ timeList' = timeList \cup {<<heap[a].expiration, a>>}
          /\ UNCHANGED <<heap, canceling, cancelled, done, expired, toRun, numCreated>>
      BY <2>1, <2>5, <3>0 DEF AddTimerInLoop, batch
    <3>3. \A e \in timeList' : e \in timeList \/ e[2] = a
      BY <3>2
    <3>4. EndInv'
      <4>1. heap[a].sequence \notin cancelled \cup done
        BY <3>1 DEF EndInv
      <4>2. \A e \in timeList' : heap'[e[2]].sequence \notin cancelled' \cup done'
        BY <3>2, <3>3, <4>1 DEF EndInv
      <4>3. \A b \in DOMAIN heap' : Queued(b)' => heap'[b].sequence \notin cancelled' \cup done'
        BY <2>3, <3>2 DEF EndInv
      <4> QED
        BY <3>2, <4>2, <4>3 DEF EndInv, IdOf
    <3>5. LosesNone
      <4>1. Ended' = Ended
        BY <3>2 DEF Ended
      <4>2. <<heap[a].expiration, a>> \in timeList' /\ <<heap[a].expiration, a>>[2] = a
        BY <3>2
      <4>3. Known(a)'
        BY <4>2 DEF Known
      <4>4. \A b \in DOMAIN heap : Known(b) => Known(b)'
        BY <2>3, <2>5, <3>0, <3>2, <4>3 DEF Known
      <4> QED
        BY <3>2, <4>1, <4>4 DEF LosesNone
    <3> QED
      BY <3>4, <3>5
  <2> QED
    BY <1>8, <2>4, <2>5 DEF RunFunctor
<1>9. CASE HandleRead
  <2>1. /\ timeList' \subseteq timeList /\ expired' \subseteq timeList
        /\ timeList' \cup expired' = timeList /\ toRun' = expired'
        /\ UNCHANGED <<heap, numCreated, canceling, functors, cancelled, done>>
    BY <1>9 DEF HandleRead, history
  <2>2. expired = {}
    BY <1>9 DEF HandleRead, Core, BatchInv
  <2>3. \A b : Queued(b)' <=> Queued(b)
    BY <2>1 DEF Queued
  <2>4. EndInv'
    <3>1. \A e \in expired' : heap[e[2]].sequence \notin cancelled \cup done
      BY <2>1 DEF EndInv
    <3> QED
      BY <2>1, <2>3, <3>1 DEF EndInv, IdOf
  <2>5. LosesNone
    BY <2>1, <2>2, <2>3 DEF LosesNone, Ended, Known
  <2> QED
    BY <2>4, <2>5
<1>10. ASSUME NEW e \in toRun, RunTimer(e) PROVE EndInv' /\ LosesNone
  <2>1. /\ UNCHANGED <<heap, numCreated, timeList, expired, canceling, cancelled, functors>>
        /\ toRun' = toRun \ {e}
        /\ done' = IF heap[e[2]].interval = 0
                      THEN done \cup {heap[e[2]].sequence} ELSE done
    BY <1>10 DEF RunTimer, lists
  <2>2. e \in expired /\ e[2] \in DOMAIN heap
    BY <1>0 DEF TypeOK
  <2>3. \A b : Queued(b)' <=> Queued(b)
    BY <2>1 DEF Queued
  <2>4. heap[e[2]].sequence \in 0 .. numCreated - 1
    BY <2>2, EntriesDiffer
  <2>5. EndInv'
    <3>1. cancelled' \subseteq 0 .. numCreated' - 1 /\ done' \subseteq 0 .. numCreated' - 1
      <4>1. cancelled \subseteq 0 .. numCreated - 1 /\ done \subseteq 0 .. numCreated - 1
        BY DEF EndInv
      <4> QED
        BY <2>1, <2>4, <4>1
    <3>2. \A f \in timeList : heap[f[2]].sequence # heap[e[2]].sequence
      BY <1>0, <2>2
    <3>3. \A f \in timeList' : heap'[f[2]].sequence \notin cancelled' \cup done'
      BY <2>1, <3>2 DEF EndInv
    <3>4. ASSUME NEW f \in expired'
          PROVE  /\ heap'[f[2]].sequence \in cancelled' => IdOf(f[2])' \in canceling'
                 /\ heap'[f[2]].sequence \in done' <=> f \notin toRun' /\ heap'[f[2]].interval = 0
      <4>1. /\ heap[f[2]].sequence \in cancelled => IdOf(f[2]) \in canceling
            /\ heap[f[2]].sequence \in done <=> f \notin toRun /\ heap[f[2]].interval = 0
        BY <2>1 DEF EndInv
      <4>2. f # e => heap[f[2]].sequence # heap[e[2]].sequence
        BY <1>0, <2>1, <2>2
      <4> QED
        BY <2>1, <4>1, <4>2 DEF IdOf
    <3>5. ASSUME NEW b \in DOMAIN heap', Queued(b)'
          PROVE  heap'[b].sequence \notin cancelled' \cup done'
      <4>1. Queued(b) /\ b \in DOMAIN heap /\ b # e[2]
        BY <2>1, <2>2, <2>3, <3>5, QueuedLive
      <4>2. heap[b].sequence # heap[e[2]].sequence
        BY <1>0, <2>2, <4>1
      <4> QED
        BY <2>1, <4>1, <4>2 DEF EndInv
    <3> QED
      BY <3>1, <3>3, <3>4, <3>5 DEF EndInv
  <2>6. LosesNone
    BY <2>1, <2>3 DEF LosesNone, Ended, Known
  <2> QED
    BY <2>5, <2>6
<1>11. CASE Reset
  <2>1. /\ DOMAIN heap' \subseteq DOMAIN heap
        /\ \A a \in DOMAIN heap :
               a \in DOMAIN heap' <=> (\A e \in expired : e[2] = a => Restarts(a))
        /\ \A a \in DOMAIN heap' :
               /\ heap'[a].sequence = heap[a].sequence
               /\ heap'[a].interval = heap[a].interval
        /\ timeList \subseteq timeList'
        /\ \A e \in expired : e[2] \in DOMAIN heap' => <<heap'[e[2]].expiration, e[2]>> \in timeList'
        /\ \A x \in timeList' : x \in timeList \/
               \E e \in expired :
                   e[2] \in DOMAIN heap' /\ x = <<heap'[e[2]].expiration, e[2]>>
        /\ expired' = {} /\ toRun = {}
        /\ UNCHANGED <<numCreated, canceling, functors, cancelled, done>>
    BY <1>11, ResetStep
  <2>2. \A b : Queued(b)' <=> Queued(b)
    BY <2>1 DEF Queued
  <2>3. EndInv'
    <3>1. ASSUME NEW x \in timeList'
          PROVE  heap'[x[2]].sequence \notin cancelled' \cup done'
      <4>0. x[2] \in DOMAIN heap' /\ heap'[x[2]].sequence = heap[x[2]].sequence
        BY <2>1 DEF Core, ListsAgree
      <4>1. CASE x \in timeList
        BY <2>1, <4>0, <4>1 DEF EndInv
      <4>2. ASSUME NEW e \in expired, e[2] = x[2] PROVE heap[x[2]].sequence \notin cancelled \cup done
        <5>1. Restarts(e[2])
          BY <1>0, <2>1, <4>0, <4>2
        <5>2. IdOf(e[2]) \notin canceling /\ heap[e[2]].interval # 0
          BY <5>1 DEF Restarts
        <5> QED
          BY <4>2, <5>2 DEF EndInv
      <4> QED
        BY <2>1, <4>0, <4>1, <4>2
    <3>2. \A b \in DOMAIN heap' : Queued(b)' => heap'[b].sequence \notin cancelled' \cup done'
      BY <2>1, <2>2 DEF EndInv
    <3> QED
      BY <2>1, <3>1, <3>2 DEF EndInv
  <2>4. LosesNone
    <3>1. Ended' = Ended
      BY <2>1 DEF Ended
    <3>2. ASSUME NEW b \in DOMAIN heap
          PROVE  \/ heap[b].sequence \in Ended'
                 \/ /\ b \in DOMAIN heap' /\ heap'[b].sequence = heap[b].sequence
                    /\ Known(b) => Known(b)'
      <4>1. CASE b \in DOMAIN heap'
        <5>1. ASSUME NEW e \in expired, e[2] = b PROVE Known(b)'
          <6>1. <<heap'[b].expiration, b>> \in timeList' /\ <<heap'[b].expiration, b>>[2] = b
            BY <2>1, <4>1, <5>1
          <6> QED
            BY <6>1 DEF Known
        <5>2. Known(b) => Known(b)'
          BY <2>1, <2>2, <5>1 DEF Known
        <5> QED
          BY <2>1, <4>1, <5>2
      <4>2. CASE b \notin DOMAIN heap'
        <5>1. PICK e \in expired : e[2] = b /\ ~Restarts(b)
          BY <2>1, <4>2
        <5>2. heap[b].interval = 0 \/ IdOf(b) \in canceling
          <6>1. heap[b] \in [expiration : Int, interval : Intervals, sequence : Sequences]
            BY <1>0 DEF TypeOK
          <6>2. heap[b].interval \in Nat
            BY <6>1
          <6> QED
            BY <5>1, <6>2 DEF Restarts
        <5>3. heap[b].interval = 0 => heap[b].sequence \in done
          BY <2>1, <5>1 DEF EndInv
        <5>4. IdOf(b) \in canceling => heap[b].sequence \in {id[2] : id \in canceling}
          BY DEF IdOf
        <5> QED
          BY <2>1, <3>1, <5>2, <5>3, <5>4 DEF Ended
      <4> QED
        BY <4>1, <4>2
    <3> QED
      BY <2>1, <3>1, <3>2 DEF LosesNone
  <2> QED
    BY <2>3, <2>4
<1> QED
  BY <1>2, <1>3, <1>4, <1>6, <1>7, <1>8, <1>9, <1>10, <1>11 DEF Next

(* NoTimerVanishes and AddingInv, for a step that loses no timer.          *)
LEMMA VanishStep ==
    Core /\ Core' /\ NoTimerVanishes /\ LosesNone => NoTimerVanishes'
<1> SUFFICES ASSUME Core, Core', NoTimerVanishes, LosesNone,
                    NEW s \in 0 .. numCreated' - 1
             PROVE  \/ s \in Ended'
                    \/ \E e \in timeList' \cup expired' : heap'[e[2]].sequence = s
                    \/ \E k \in 1 .. Len(functors') :
                           functors'[k].op = "add" /\ heap'[functors'[k].timer].sequence = s
  BY DEF NoTimerVanishes, Ended
<1>0. numCreated \in Nat
  BY TimerQueueAssumption DEF Core, ListsAgree, TypeOK
<1>1. ASSUME NEW b, Known(b)', heap'[b].sequence = s
      PROVE  \/ \E e \in timeList' \cup expired' : heap'[e[2]].sequence = s
             \/ \E k \in 1 .. Len(functors') :
                    functors'[k].op = "add" /\ heap'[functors'[k].timer].sequence = s
  BY <1>1 DEF Known, Queued
<1>2. CASE s \in 0 .. numCreated - 1 /\ s \notin Ended'
  <2>1. s \notin Ended
    BY <1>2 DEF LosesNone
  <2>2. PICK b : Known(b) /\ heap[b].sequence = s
    BY <1>2, <2>1 DEF NoTimerVanishes, Ended, Known, Queued
  <2>3. b \in DOMAIN heap
    BY <2>2 DEF Known, Queued, Core, ListsAgree
  <2>4. Known(b)' /\ heap'[b].sequence = s
    BY <1>2, <2>2, <2>3 DEF LosesNone
  <2> QED
    BY <1>1, <2>4
<1>3. CASE s \notin 0 .. numCreated - 1
  <2>1. numCreated' = numCreated + 1 /\ s = numCreated
    BY <1>0, <1>3 DEF LosesNone
  <2> QED
    BY <1>0, <1>1, <2>1 DEF LosesNone
<1> QED
  BY <1>2, <1>3

LEMMA AddingStep == Core /\ AddingInv /\ LosesNone /\ [Next]_vars => AddingInv'
<1> SUFFICES ASSUME Core, AddingInv, LosesNone, [Next]_vars,
                    NEW c \in Clients, adding'[c] # NoTimer
             PROVE  \/ adding'[c][1] \in DOMAIN heap' /\ IdOf(adding[c][1])' = adding'[c]
                    \/ adding'[c][2] \in Ended'
  BY DEF AddingInv
<1>0. TypeOK /\ adding \in [Clients -> TimerIds \cup {NoTimer}]
  BY DEF Core, ListsAgree, TypeOK
<1>1. CASE adding'[c] = adding[c]
  <2>1. PICK b, s : adding[c] = <<b, s>>
    BY <1>0 DEF TimerIds, NoTimer
  <2>2. \/ b \in DOMAIN heap /\ heap[b].sequence = s
        \/ s \in Ended
    <3>1. adding[c] # NoTimer
      BY <1>1
    <3>2. \/ adding[c][1] \in DOMAIN heap /\ IdOf(adding[c][1]) = adding[c]
          \/ adding[c][2] \in Ended
      BY <3>1 DEF AddingInv
    <3>3. adding[c][1] = b /\ adding[c][2] = s
      BY <2>1
    <3> QED
      BY <2>1, <3>2, <3>3 DEF IdOf
  <2>3. \/ b \in DOMAIN heap' /\ heap'[b].sequence = s
        \/ s \in Ended'
    BY <2>2 DEF LosesNone
  <2> QED
    BY <1>1, <2>1, <2>3 DEF IdOf
<1>2. CASE adding'[c] # adding[c]
  <2>1. PICK d \in Clients : (\E a \in Addrs, e \in Delays, i \in Intervals :
                                 ClientAddTimer(d, a, now + e, i))
                             \/ ClientAddReturns(d)
    BY <1>2 DEF Next, LoopAddTimer, LoopCancel, ClientCancel, RunFunctor, PollTimerfd,
                HandleRead, Reset, RunTimer, Tick, SetClockBack, vars
  <2>2. CASE ClientAddReturns(d)
    BY <1>0, <1>2, <2>2 DEF ClientAddReturns
  <2>3. ASSUME NEW a \in Addrs, NEW e \in Delays, NEW i \in Intervals,
               ClientAddTimer(d, a, now + e, i)
        PROVE  adding'[c][1] \in DOMAIN heap' /\ IdOf(adding[c][1])' = adding'[c]
    <3>1. adding'[c] = <<a, numCreated>>
      BY <1>0, <1>2, <2>3 DEF ClientAddTimer
    <3>2. a \in DOMAIN heap' /\ heap'[a].sequence = numCreated
      BY <2>3 DEF ClientAddTimer, Alloc, Timer
    <3> QED
      BY <3>1, <3>2 DEF IdOf
  <2> QED
    BY <2>1, <2>2, <2>3
<1> QED
  BY <1>1, <1>2

(* What the proofs above need together.                                    *)
IInv == Core /\ EndInv /\ NoTimerVanishes /\ AddingInv

LEMMA InvInit == Init => IInv
<1> SUFFICES ASSUME Init PROVE IInv
  OBVIOUS
<1>1. Core
  BY CoreInit
<1>2. EndInv
  BY DEF Init, EndInv
<1>3. NoTimerVanishes
  BY DEF Init, NoTimerVanishes
<1>4. AddingInv
  BY DEF Init, AddingInv
<1> QED
  BY <1>1, <1>2, <1>3, <1>4 DEF IInv

LEMMA InvStep == IInv /\ [Next]_vars => IInv'
  BY CoreStep, EndStep, VanishStep, AddingStep DEF IInv

(* A timer that was cancelled, or ran without an interval, never comes     *)
(* back, through any reuse of its address and any batch it was in.         *)
THEOREM EndedTimersStayOut == Spec => []EndedStaysOut
<1>1. Core /\ EndInv => EndedStaysOut
  BY DEF Core, ListsAgree, TypeOK, EndInv, EndedStaysOut
<1> QED
  BY <1>1, InvInit, InvStep, PTL DEF Spec, IInv

(* A timer is only ever lost by its own end.                               *)
THEOREM TimersDoNotVanish == Spec => []NoTimerVanishes
  BY InvInit, InvStep, PTL DEF Spec, IInv

(* addTimer() on another thread returns the id of its own timer, unless    *)
(* that timer has come to its end in the meantime.                         *)
THEOREM IdsAreReturned == Spec => ReturnedIdIsTheTimers
<1> DEFINE Returned(c) ==
        (adding[c] # NoTimer /\ adding'[c] = NoTimer) =>
            \/ ids' = ids \cup {adding[c]}
            \/ adding[c][2] \in done \cup cancelled \cup {id[2] : id \in canceling}
<1>1. ASSUME IInv, Next, NEW c \in Clients, adding[c] # NoTimer, adding'[c] = NoTimer
      PROVE  Returned(c)
  <2>0. TypeOK /\ AddingInv
    BY <1>1 DEF IInv, Core, ListsAgree
  <2>1. PICK d \in Clients : (\E a \in Addrs, e \in Delays, i \in Intervals :
                                 ClientAddTimer(d, a, now + e, i))
                             \/ ClientAddReturns(d)
    BY <1>1 DEF Next, LoopAddTimer, LoopCancel, ClientCancel, RunFunctor, PollTimerfd,
                HandleRead, Reset, RunTimer, Tick, SetClockBack
  <2>2. ASSUME NEW a \in Addrs, NEW e \in Delays, NEW i \in Intervals,
               ClientAddTimer(d, a, now + e, i)
        PROVE  FALSE
    <3>1. adding'[c] = adding[c] \/ adding'[c] = <<a, numCreated>>
      BY <2>0, <2>2 DEF ClientAddTimer, TypeOK
    <3>2. a # 0
      BY TimerQueueAssumption
    <3> QED
      BY <1>1, <3>1, <3>2 DEF NoTimer
  <2>3. CASE ClientAddReturns(d)
    <3>1. c = d
      BY <1>1, <2>0, <2>3 DEF ClientAddReturns, TypeOK
    <3>0. adding[c] \in Addrs \X Sequences
      BY <1>1, <2>0 DEF TypeOK, TimerIds
    <3>2. PICK b \in Addrs, s \in Sequences : adding[c] = <<b, s>>
      BY <3>0
    <3>3. CASE b \in DOMAIN heap /\ heap[b].sequence = s
      BY <2>3, <3>1, <3>2, <3>3 DEF ClientAddReturns
    <3>4. CASE s \in Ended
      BY <3>2, <3>4 DEF Ended
    <3>5. adding[c][1] = b /\ adding[c][2] = s
      BY <3>2
    <3>6. (b \in DOMAIN heap /\ IdOf(b) = <<b, s>>) \/ s \in Ended
      BY <1>1, <2>0, <3>2, <3>5, Zenon DEF AddingInv
    <3>7. IdOf(b) = <<b, s>> => heap[b].sequence = s
      BY DEF IdOf
    <3> QED
      BY <3>3, <3>4, <3>6, <3>7, Zenon
  <2> QED
    BY <2>1, <2>2, <2>3
<1>2. IInv /\ [Next]_vars => [\A c \in Clients : Returned(c)]_vars
  BY <1>1
<1> QED
  BY <1>2, InvInit, InvStep, PTL DEF Spec, ReturnedIdIsTheTimers

-------------------------------------------------------------------------------
(* The timerfd.                                                            *)

(* What cancelling, waiting and setting the clock back do to the time left. *)
LEMMA CountDown ==
    ASSUME NEW n \in Nat, NEW n2 \in Nat, NEW t \in Int, NEW t2 \in Int,
           NEW w \in Nat, NEW v \in Nat, w <= v,
           0 <= t, t <= (IF w - n < 1 THEN 1 ELSE w - n),
           \/ n2 <= n /\ t2 = t
           \/ n2 \in {n, n + 1} /\ t2 = IF t > 0 THEN t - 1 ELSE t
    PROVE  0 <= t2 /\ t2 <= (IF v - n2 < 1 THEN 1 ELSE v - n2)
  OBVIOUS

(* The timerfd stays set in time: a new first timer sets it, a later one   *)
(* and a cancellation leave it early enough, and a batch ends with it set. *)
LEMMA ArmedStep == Core /\ Core' /\ ArmedInTime /\ [Next]_vars => ArmedInTime'
<1> SUFFICES ASSUME Core, Core', ArmedInTime, [Next]_vars,
                    timeList' # {}, ~calling', ~polled'
             PROVE  tfd' # Off /\ tfd' <= HowMuchTimeFromNow(Earliest(timeList))'
  BY DEF ArmedInTime
<1> USE TimerQueueAssumption
<1>a. now \in Nat /\ tfd \in Int /\ tfd >= Off /\ \A e \in timeList : e[1] \in Nat
  <2>1. TypeOK /\ \A e \in timeList : e[1] = heap[e[2]].expiration /\ e[2] \in DOMAIN heap
    BY DEF Core, ListsAgree
  <2>2. \A b \in DOMAIN heap : heap[b].expiration \in Nat
    BY DEF Core, HeapInv
  <2> QED
    BY <2>1, <2>2 DEF TypeOK
<1>b. now' \in Nat /\ tfd' \in Int /\ tfd' >= Off /\ \A e \in timeList' : e[1] \in Nat
  <2>1. TypeOK' /\ \A e \in timeList' : e[1] = heap'[e[2]].expiration /\ e[2] \in DOMAIN heap'
    BY DEF Core, ListsAgree
  <2>2. \A b \in DOMAIN heap' : heap'[b].expiration \in Nat
    BY DEF Core, HeapInv
  <2> QED
    BY <2>1, <2>2 DEF TypeOK
<1>1. PICK v \in Nat : /\ v = Earliest(timeList')
                       /\ \E e \in timeList' : v = e[1]
                       /\ \A e \in timeList' : v <= e[1]
  BY <1>b, EarliestIsFirst
<1>2. SUFFICES 0 <= tfd' /\ tfd' <= (IF v - now' < 1 THEN 1 ELSE v - now')
  BY <1>b, <1>1 DEF HowMuchTimeFromNow, Off
<1>3. ASSUME timeList # {}, ~calling, ~polled
      PROVE  \E w \in Nat :
                 /\ \E e \in timeList : w = e[1]
                 /\ \A e \in timeList : w <= e[1]
                 /\ 0 <= tfd /\ tfd <= (IF w - now < 1 THEN 1 ELSE w - now)
  <2>1. PICK w \in Nat : /\ w = Earliest(timeList)
                         /\ \E e \in timeList : w = e[1]
                         /\ \A e \in timeList : w <= e[1]
    BY <1>a, <1>3, EarliestIsFirst
  <2>2. tfd # Off /\ tfd <= HowMuchTimeFromNow(Earliest(timeList))
    BY <1>3 DEF ArmedInTime
  <2>3. 0 <= tfd /\ tfd <= (IF w - now < 1 THEN 1 ELSE w - now)
    BY <1>a, <2>1, <2>2 DEF HowMuchTimeFromNow, Off
  <2> QED
    BY <2>1, <2>3
<1>4. ASSUME timeList' \subseteq timeList, ~calling, ~polled,
             \/ now' <= now /\ tfd' = tfd
             \/ now' \in {now, now + 1} /\ tfd' = IF tfd > 0 THEN tfd - 1 ELSE tfd
      PROVE  0 <= tfd' /\ tfd' <= (IF v - now' < 1 THEN 1 ELSE v - now')
  <2>1. PICK w \in Nat :
             /\ \A e \in timeList : w <= e[1]
             /\ 0 <= tfd /\ tfd <= (IF w - now < 1 THEN 1 ELSE w - now)
    BY <1>3, <1>4
  <2>2. w <= v
    BY <1>1, <1>4, <2>1
  <2> QED
    BY <1>a, <1>b, <1>4, <2>1, <2>2, CountDown
<1>5. ASSUME NEW a, NEW t, AddTimerInLoop(a, t), t.expiration \in Nat, ~calling, ~polled,
             now' = now
      PROVE  0 <= tfd' /\ tfd' <= (IF v - now' < 1 THEN 1 ELSE v - now')
  <2>1. timeList' = timeList \cup {<<t.expiration, a>>}
    BY <1>5 DEF AddTimerInLoop
  <2>2. <<t.expiration, a>>[1] = t.expiration
    OBVIOUS
  <2>3. v <= t.expiration
    BY <1>1, <2>1, <2>2
  <2>4. CASE \A e \in timeList : t.expiration < e[1]
    <3>0. PICK e \in timeList' : v = e[1]
      BY <1>1
    <3>1. v = t.expiration
      <4>1. CASE e \in timeList
        <5>1. t.expiration < e[1] /\ e[1] \in Nat
          BY <1>a, <2>4, <4>1
        <5> QED
          BY <1>5, <2>3, <3>0, <5>1
      <4>2. CASE e = <<t.expiration, a>>
        BY <2>2, <3>0, <4>2
      <4> QED
        BY <2>1, <4>1, <4>2
    <3>2. tfd' = HowMuchTimeFromNow(t.expiration)
      BY <1>5, <2>4 DEF AddTimerInLoop
    <3> QED
      BY <1>5, <1>a, <3>1, <3>2 DEF HowMuchTimeFromNow
  <2>5. CASE ~ \A e \in timeList : t.expiration < e[1]
    <3>1. tfd' = tfd
      BY <1>5, <2>5 DEF AddTimerInLoop
    <3>2. PICK w \in Nat :
               /\ \E e \in timeList : w = e[1]
               /\ \A e \in timeList : w <= e[1]
               /\ 0 <= tfd /\ tfd <= (IF w - now < 1 THEN 1 ELSE w - now)
      BY <1>3, <1>5, <2>5
    <3>3. w <= t.expiration
      BY <1>a, <1>5, <2>5, <3>2
    <3>4. w <= v
      BY <1>1, <2>1, <2>2, <3>2, <3>3
    <3> QED
      BY <1>a, <1>b, <1>5, <3>1, <3>2, <3>4, CountDown
  <2> QED
    BY <2>4, <2>5
<1>6. ASSUME NEW id, CancelInLoop(id), ~calling, ~polled, now' = now, tfd' = tfd
      PROVE  0 <= tfd' /\ tfd' <= (IF v - now' < 1 THEN 1 ELSE v - now')
  <2>1. timeList' \subseteq timeList
    BY <1>6 DEF CancelInLoop
  <2> QED
    BY <1>a, <1>4, <1>6, <2>1
<1>7. ASSUME NEW a \in Addrs, NEW d \in Delays, NEW i \in Intervals, LoopAddTimer(a, now + d, i)
      PROVE  0 <= tfd' /\ tfd' <= (IF v - now' < 1 THEN 1 ELSE v - now')
  <2>1. /\ AddTimerInLoop(a, Timer(now + d, i))
        /\ now' = now /\ calling' = calling /\ polled' = polled
    BY <1>7 DEF LoopAddTimer, batch, clock
  <2>2. Timer(now + d, i).expiration \in Nat
    BY <1>a DEF Timer
  <2> QED
    BY <1>5, <2>1, <2>2
<1>8. ASSUME NEW id \in ids, LoopCancel(id)
      PROVE  0 <= tfd' /\ tfd' <= (IF v - now' < 1 THEN 1 ELSE v - now')
  <2>1. CancelInLoop(id) /\ tfd' = tfd /\ now' = now /\ calling' = calling /\ polled' = polled
    BY <1>8 DEF LoopCancel, batch, clock
  <2> QED
    BY <1>6, <2>1
<1>9. CASE RunFunctor
  <2>1. now' = now /\ calling' = calling /\ polled' = polled
    BY <1>9 DEF RunFunctor, batch, clock
  <2>2. CASE /\ Head(functors).op = "add"
             /\ AddTimerInLoop(Head(functors).timer, heap[Head(functors).timer])
    <3>1. functors # <<>> /\ functors \in Seq(Calls)
      BY <1>9 DEF RunFunctor, Core, ListsAgree, TypeOK
    <3>2. 1 \in 1 .. Len(functors) /\ Head(functors) = functors[1]
      BY <3>1
    <3>3. Head(functors).timer \in DOMAIN heap
      BY <2>2, <3>2 DEF Core, ListsAgree
    <3>4. heap[Head(functors).timer].expiration \in Nat
      BY <3>3 DEF Core, HeapInv
    <3> QED
      BY <1>5, <2>1, <2>2, <3>4
  <2>3. CASE CancelInLoop(Head(functors).id) /\ tfd' = tfd
    BY <1>6, <2>1, <2>3
  <2> QED
    BY <1>9, <2>2, <2>3 DEF RunFunctor
<1>10. CASE Reset
  <2>1. now' = now /\ tfd' = HowMuchTimeFromNow(Earliest(timeList'))
    BY <1>10 DEF Reset, clock
  <2> QED
    BY <1>a, <1>1, <2>1 DEF HowMuchTimeFromNow
<1>11. CASE Tick
  <2>1. /\ timeList' = timeList /\ calling' = calling /\ polled' = polled
        /\ now' \in {now, now + 1} /\ tfd' = IF tfd > 0 THEN tfd - 1 ELSE tfd
    BY <1>11 DEF Tick, lists, batch
  <2> QED
    BY <1>4, <2>1
<1>12. CASE SetClockBack
  <2>1. /\ timeList' = timeList /\ calling' = calling /\ polled' = polled
        /\ now' = now - 1 /\ tfd' = tfd
    BY <1>12 DEF SetClockBack, lists, batch
  <2> QED
    BY <1>a, <1>4, <2>1
<1>13. CASE \/ \E c \in Clients, a \in Addrs, d \in Delays, i \in Intervals :
                   ClientAddTimer(c, a, now + d, i)
            \/ \E c \in Clients, id \in ids : ClientCancel(c, id)
            \/ \E c \in Clients : ClientAddReturns(c)
            \/ UNCHANGED vars
  <2>1. /\ timeList' = timeList /\ calling' = calling /\ polled' = polled
        /\ now' = now /\ tfd' = tfd
    BY <1>13 DEF ClientAddTimer, ClientCancel, ClientAddReturns, vars, lists, batch, clock
  <2> QED
    BY <1>a, <1>4, <2>1
<1>14. ~(PollTimerfd \/ HandleRead \/ \E e \in toRun : RunTimer(e))
  BY DEF PollTimerfd, HandleRead, RunTimer
<1> QED
  BY <1>7, <1>8, <1>9, <1>10, <1>11, <1>12, <1>13, <1>14 DEF Next

(* Outside handleRead() the timerfd is set in time for the earliest timer. *)
THEOREM TimerfdIsArmed == Spec => []ArmedInTime
<1>1. Init => ArmedInTime
  BY DEF Init, ArmedInTime
<1>2. IInv => Core
  BY DEF IInv
<1> QED
  BY <1>1, <1>2, InvInit, InvStep, ArmedStep, PTL DEF Spec
===============================================================================
