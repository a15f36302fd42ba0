------------------------------- MODULE Executor -------------------------------
(***************************************************************************)
(* What EventLoop::queueInLoop promises to its callers: a serial executor. *)
(* Tasks are numbered in the order in which they are queued; they are run  *)
(* one at a time, each at most once, in that order.  Nothing here speaks   *)
(* of threads, locks, batches or of the wake-up descriptor.                *)
(***************************************************************************)
EXTENDS Naturals, Sequences

VARIABLES
    queue,    \* tasks queued and not yet started, oldest first
    done      \* tasks started, oldest first

vars == <<queue, done>>

Init ==
    /\ queue = <<>>
    /\ done = <<>>

(* A caller queues the next task; its number follows all earlier ones.     *)
Submit ==
    /\ queue' = Append(queue, Len(done) + Len(queue) + 1)
    /\ UNCHANGED done

(* The executor starts the oldest queued task.                             *)
RunHead ==
    /\ queue # <<>>
    /\ done' = Append(done, Head(queue))
    /\ queue' = Tail(queue)

Next == Submit \/ RunHead

Spec == Init /\ [][Next]_vars
===============================================================================
