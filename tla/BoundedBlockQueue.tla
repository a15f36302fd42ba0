--------------------------- MODULE BoundedBlockQueue --------------------------
(***************************************************************************)
(* BoundedBlockQueue<T, N> (src/src/base/BoundedBlockQueue.h): a ring of N *)
(* slots under a mutex, with one condition variable for each direction.    *)
(*                                                                         *)
(* push() and pop() hold the mutex from their first test to a wait or to   *)
(* their end, so such a stretch is one step.  A thread in wait() goes on   *)
(* after a notification, or spuriously, when it gets the mutex back.       *)
(***************************************************************************)
EXTENDS Naturals, Sequences, FiniteSets

CONSTANTS
    Producers,   \* threads that call push()
    Consumers,   \* threads that call pop()
    N,           \* the template parameter
    MaxItems     \* bound: number of items pushed

ASSUME BoundedBlockQueueAssumption ==
    /\ IsFiniteSet(Producers) /\ IsFiniteSet(Consumers)
    /\ Producers \cap Consumers = {}
    /\ N \in Nat \ {0}
    /\ MaxItems \in Nat

VARIABLES
    slots,      \* m_BoundedBlockQueue
    head,       \* m_nowQueueHead
    tail,       \* m_nowQueueTail
    pc,         \* "out" of the queue, "wait"ing, or "woken" and after the mutex
    numItems,   \* number of items pushed; an item is its number
    popped      \* the items popped, in order

vars == <<slots, head, tail, pc, numItems, popped>>

Threads == Producers \cup Consumers

Items == 1 .. MaxItems

TypeOK ==
    /\ slots \in [0 .. N - 1 -> Items \cup {0}]
    /\ head \in 0 .. N - 1
    /\ tail \in 0 .. N - 1
    /\ pc \in [Threads -> {"out", "wait", "woken"}]
    /\ numItems \in 0 .. MaxItems
    /\ popped \in Seq(Items)

Init ==
    /\ slots = [i \in 0 .. N - 1 |-> 0]
    /\ head = 0
    /\ tail = 0
    /\ pc = [t \in Threads |-> "out"]
    /\ numItems = 0
    /\ popped = <<>>

-------------------------------------------------------------------------------
IsEmpty == head = tail

(* Mutant: the last slot counts as followed by none.                       *)
IsFullNoWrap == tail + 1 = head

IsFull == (tail + 1) % N = head

Waiting(group) == {t \in group : pc[t] = "wait"}

Woken(group) == {t \in group : pc[t] = "woken"}

(* notify_one(): one waiting thread of the group, if there is any.  The    *)
(* thread t that notifies leaves the queue.                                *)
NotifyOne(t, group) ==
    \/ /\ Waiting(group) = {}
       /\ pc' = [pc EXCEPT ![t] = "out"]
    \/ \E w \in Waiting(group) : pc' = [pc EXCEPT ![t] = "out", ![w] = "woken"]

(* A thread that is neither in push() or pop() nor still waiting.          *)
HasMutex(t) == pc[t] # "wait"

PushWaits(p) ==
    /\ HasMutex(p)
    /\ numItems < MaxItems
    /\ IsFull
    /\ pc' = [pc EXCEPT ![p] = "wait"]
    /\ UNCHANGED <<slots, head, tail, numItems, popped>>

(* Mutant: push() notifies on the other condition variable.                *)
PushNotifiesProducers(p) ==
    /\ HasMutex(p)
    /\ numItems < MaxItems
    /\ ~IsFull
    /\ numItems' = numItems + 1
    /\ slots' = [slots EXCEPT ![tail] = numItems + 1]
    /\ tail' = (tail + 1) % N
    /\ NotifyOne(p, Producers)
    /\ UNCHANGED <<head, popped>>

Push(p) ==
    /\ HasMutex(p)
    /\ numItems < MaxItems
    /\ ~IsFull
    /\ numItems' = numItems + 1
    /\ slots' = [slots EXCEPT ![tail] = numItems + 1]
    /\ tail' = (tail + 1) % N
    /\ NotifyOne(p, Consumers)
    /\ UNCHANGED <<head, popped>>

PopWaits(c) ==
    /\ HasMutex(c)
    /\ IsEmpty
    /\ pc' = [pc EXCEPT ![c] = "wait"]
    /\ UNCHANGED <<slots, head, tail, numItems, popped>>

(* Mutant: pop() notifies only when the queue was full.                    *)
PopNotifiesWhenFull(c) ==
    /\ HasMutex(c)
    /\ ~IsEmpty
    /\ popped' = Append(popped, slots[head])
    /\ head' = (head + 1) % N
    /\ IF IsFull THEN NotifyOne(c, Producers) ELSE pc' = [pc EXCEPT ![c] = "out"]
    /\ UNCHANGED <<slots, tail, numItems>>

Pop(c) ==
    /\ HasMutex(c)
    /\ ~IsEmpty
    /\ popped' = Append(popped, slots[head])
    /\ head' = (head + 1) % N
    /\ NotifyOne(c, Producers)
    /\ UNCHANGED <<slots, tail, numItems>>

(* wait() may return without a notification.                               *)
SpuriousWakeUp(t) ==
    /\ pc[t] = "wait"
    /\ pc' = [pc EXCEPT ![t] = "woken"]
    /\ UNCHANGED <<slots, head, tail, numItems, popped>>

Next ==
    \/ \E p \in Producers : PushWaits(p) \/ Push(p)
    \/ \E c \in Consumers : PopWaits(c) \/ Pop(c)
    \/ \E t \in Threads : SpuriousWakeUp(t)

(* A woken thread gets the mutex back in the end.                          *)
Fairness ==
    /\ \A p \in Producers : WF_vars(pc[p] = "woken" /\ (PushWaits(p) \/ Push(p)))
    /\ \A c \in Consumers : WF_vars(pc[c] = "woken" /\ (PopWaits(c) \/ Pop(c)))

Spec == Init /\ [][Next]_vars /\ Fairness

-------------------------------------------------------------------------------
(* Properties.                                                             *)

(* The number of items in the ring.                                        *)
Size == IF tail >= head THEN tail - head ELSE tail + N - head

(* A thread sleeps only while nobody needs it: as long as one consumer     *)
(* waits, at least as many consumers are on their way as there are items   *)
(* to take, and as long as one producer waits, at least as many producers  *)
(* as there are free slots.  One notify_one() for each push() and pop() is *)
(* enough, whoever takes the mutex first and whoever wakes up for nothing. *)
(* The two indices stay in the ring.                                       *)
NoSleeperForgotten ==
    /\ TypeOK
    /\ Waiting(Consumers) # {} => Size <= Cardinality(Woken(Consumers))
    /\ Waiting(Producers) # {} => N - 1 - Size <= Cardinality(Woken(Producers))

Content == [i \in 1 .. Size |-> slots[(head + i - 1) % N]]

Unbounded ==
    INSTANCE BlockQueue WITH queue <- Content, pc <- [c \in Consumers |-> pc[c]]

(* To its consumers the ring is the unbounded BlockQueue: they get every   *)
(* item once and in the order of the push() calls, wait only on an empty   *)
(* queue, and each push() wakes one of them, through every wrap of the two *)
(* indices and whatever the producers wait for.                            *)
IsBlockQueue == Unbounded!Spec

(* While some consumer waits, an item that was pushed is popped.           *)
WaitingConsumerServed ==
    \A i \in Items :
        (numItems >= i /\ Waiting(Consumers) # {}) ~>
            (Len(popped) >= i \/ Waiting(Consumers) \cup Woken(Consumers) = {})
===============================================================================
