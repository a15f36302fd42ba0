------------------------------ MODULE BlockQueue ------------------------------
(***************************************************************************)
(* BlockQueue<T> (src/src/base/BlockQueue.h): a queue without a bound,     *)
(* under a mutex, whose consumers wait on one condition variable.          *)
(* BoundedBlockQueue does for its consumers what this queue does.          *)
(*                                                                         *)
(* push() and pop() hold the mutex from their first test to a wait or to   *)
(* their end, so such a stretch is one step.  An item is its number in the *)
(* order of the push() calls.                                              *)
(***************************************************************************)
EXTENDS Naturals, Sequences

CONSTANT Consumers   \* threads that call pop()

VARIABLES
    queue,    \* m_blockQueue
    pc,       \* a consumer is "out" of the queue, "wait"ing or "woken"
    popped    \* the items popped, in order

vars == <<queue, pc, popped>>

Init ==
    /\ queue = <<>>
    /\ pc = [c \in Consumers |-> "out"]
    /\ popped = <<>>

(* push() with its notify_one(): one waiting consumer, if there is any.    *)
Push ==
    /\ queue' = Append(queue, Len(popped) + Len(queue) + 1)
    /\ \/ /\ \A c \in Consumers : pc[c] # "wait"
          /\ UNCHANGED pc
       \/ \E c \in Consumers :
              /\ pc[c] = "wait"
              /\ pc' = [pc EXCEPT ![c] = "woken"]
    /\ UNCHANGED popped

(* pop() finds the queue empty, at first or after it was woken.            *)
PopWaits(c) ==
    /\ pc[c] # "wait"
    /\ queue = <<>>
    /\ pc' = [pc EXCEPT ![c] = "wait"]
    /\ UNCHANGED <<queue, popped>>

Pop(c) ==
    /\ pc[c] # "wait"
    /\ queue # <<>>
    /\ popped' = Append(popped, Head(queue))
    /\ queue' = Tail(queue)
    /\ pc' = [pc EXCEPT ![c] = "out"]

(* wait() may return without a notification.                               *)
SpuriousWakeUp(c) ==
    /\ pc[c] = "wait"
    /\ pc' = [pc EXCEPT ![c] = "woken"]
    /\ UNCHANGED <<queue, popped>>

Next == Push \/ \E c \in Consumers : PopWaits(c) \/ Pop(c) \/ SpuriousWakeUp(c)

Spec == Init /\ [][Next]_vars
===============================================================================
