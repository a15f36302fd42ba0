--------------------------- MODULE EventLoopProofs ----------------------------
(***************************************************************************)
(* Proofs about EventLoop for any set of threads, any set of channels and  *)
(* any initial length of the event vector.                                 *)
(***************************************************************************)
EXTENDS EventLoop, SequenceTheorems, TLAPS

(* The inductive invariant behind NoLostWakeup.  HandleRead clears the     *)
(* eventfd, so the wake-up may be missing from there to the swap; from the *)
(* swap on, back to the next poll(), a queued functor has its wake-up.     *)
WakeInv ==
    /\ calling <=> (pc \in {"swap", "run", "functor"})
    /\ pc \in {"poll", "run", "functor", "check", "idle"} =>
           ((\E k \in 1 .. Len(pending) : pending[k] \notin pre) => WakeComing)
    /\ pc = "poll" /\ ~isRunning => WakeComing

(* The inductive invariant behind the refinement: the functors queued so   *)
(* far are the started ones, the batch and the pending ones, and there is  *)
(* a batch only inside doPendingFunc().                                    *)
BatchInv ==
    /\ pc \notin {"run", "functor"} => functors = <<>>
    /\ numTasks = Len(ran) + Len(functors) + Len(pending)

(* TypeOK is inductive: each action of the loop and of its callers keeps   *)
(* every variable in its type.                                             *)
LEMMA TypeStep == TypeOK /\ [Next]_vars => TypeOK'
<1> SUFFICES ASSUME TypeOK, [Next]_vars PROVE TypeOK'
  OBVIOUS
<1> USE EventLoopAssumption
<1>1. ASSUME NEW t \in Callers, QueueInLoop(t) PROVE TypeOK'
  <2>1. numTasks + 1 \in Tasks
    BY <1>1 DEF TypeOK, QueueInLoop, Tasks
  <2>2. pending' \in Seq(Tasks)
    BY <1>1, <2>1, AppendProperties DEF TypeOK, QueueInLoop
  <2>3. pre' \subseteq Tasks
    BY <1>1, <2>1 DEF TypeOK, QueueInLoop
  <2>4. waking' \subseteq Callers
    BY <1>1 DEF TypeOK, QueueInLoop
  <2>5. numTasks' \in 0 .. MaxTasks
    BY <1>1 DEF TypeOK, QueueInLoop
  <2> QED
    BY <1>1, <2>2, <2>3, <2>4, <2>5 DEF TypeOK, QueueInLoop
<1>2. ASSUME NEW t \in Callers, Quit(t) PROVE TypeOK'
  BY <1>2 DEF TypeOK, Quit
<1>3. ASSUME NEW t \in Callers, WakeUp(t) PROVE TypeOK'
  BY <1>3 DEF TypeOK, WakeUp
<1>4. CASE Loop
  BY <1>4 DEF TypeOK, Loop, PCs
<1>5. CASE Check
  BY <1>5 DEF TypeOK, Check, PCs
<1>6. CASE Poll
  <2>1. active' \subseteq Channels
    BY <1>6 DEF TypeOK, Poll, Reports, Ready, Channels
  <2>2. vecSize' \in Nat \ {0}
    BY <1>6 DEF TypeOK, Poll
  <2> QED
    BY <1>6, <2>1, <2>2 DEF TypeOK, Poll, PCs
<1>7. CASE PollTimeout
  BY <1>7 DEF TypeOK, PollTimeout, PCs
<1>8. CASE HandleRead
  BY <1>8 DEF TypeOK, HandleRead
<1>9. ASSUME NEW c \in IoChannels, HandleEvent(c) PROVE TypeOK'
  BY <1>9 DEF TypeOK, HandleEvent, PCs
<1>10. CASE EndHandler
  BY <1>10 DEF TypeOK, EndHandler, PCs
<1>11. CASE BeginPending
  BY <1>11 DEF TypeOK, BeginPending, PCs
<1>12. CASE Swap
  BY <1>12 DEF TypeOK, Swap, PCs
<1>13. CASE RunFunctor
  <2>1. Head(functors) \in Tasks /\ functors' \in Seq(Tasks)
    BY <1>13, HeadTailProperties DEF TypeOK, RunFunctor
  <2>2. ran' \in Seq(Tasks)
    BY <1>13, <2>1, AppendProperties DEF TypeOK, RunFunctor
  <2> QED
    BY <1>13, <2>1, <2>2 DEF TypeOK, RunFunctor, PCs
<1>14. CASE EndFunctor
  BY <1>14 DEF TypeOK, EndFunctor, PCs
<1>15. CASE EndPending
  BY <1>15 DEF TypeOK, EndPending, PCs
<1>16. ASSUME NEW c \in IoChannels, IoEvent(c) PROVE TypeOK'
  BY <1>16 DEF TypeOK, IoEvent
<1>17. CASE UNCHANGED vars
  BY <1>17 DEF TypeOK, vars
<1> QED
  BY <1>1, <1>2, <1>3, <1>4, <1>5, <1>6, <1>7, <1>8, <1>9, <1>10, <1>11,
     <1>12, <1>13, <1>14, <1>15, <1>16, <1>17 DEF Next, OwnerStep

(* Every variable of the loop keeps its type in every behaviour.           *)
THEOREM TypeCorrect == Spec => []TypeOK
<1>1. Init => TypeOK
  <2> SUFFICES ASSUME Init PROVE TypeOK
    OBVIOUS
  <2>1. <<>> \in Seq(Tasks)
    BY EmptySeq
  <2>2. numTasks \in 0 .. MaxTasks
    BY EventLoopAssumption DEF Init
  <2> QED
    BY <2>1, <2>2, EventLoopAssumption DEF Init, TypeOK, PCs
<1> QED
  BY <1>1, TypeStep, PTL DEF Spec

(* No step of any thread loses a wake-up.                                  *)
LEMMA WakeStep == TypeOK /\ WakeInv /\ [Next]_vars => WakeInv'
<1> SUFFICES ASSUME TypeOK, WakeInv, [Next]_vars PROVE WakeInv'
  OBVIOUS
<1> USE EventLoopAssumption
<1> DEFINE Unserved == \E k \in 1 .. Len(pending) : pending[k] \notin pre
<1>1. ASSUME NEW t \in Callers, QueueInLoop(t) PROVE WakeInv'
  <2>1. CASE t # Owner \/ calling
    <3>1. waking' # {}
      BY <1>1, <2>1 DEF QueueInLoop
    <3> QED
      BY <1>1, <3>1 DEF QueueInLoop, WakeInv, WakeComing
  <2>2. CASE t = Owner /\ ~calling
    <3>1. waking' = waking /\ evfd' = evfd /\ pc' = pc /\ calling' = calling
          /\ isRunning' = isRunning
      BY <1>1, <2>2 DEF QueueInLoop
    <3>2. CASE pc = "idle"
      <4>1. pre' = pre \cup {numTasks + 1}
        BY <1>1, <2>2, <3>2 DEF QueueInLoop
      <4>2. /\ Len(pending') = Len(pending) + 1
            /\ \A k \in 1 .. Len(pending) : pending'[k] = pending[k]
            /\ pending'[Len(pending) + 1] = numTasks + 1
        BY <1>1 DEF QueueInLoop, TypeOK
      <4>3. Len(pending) \in Nat
        BY DEF TypeOK
      <4>4. (\E k \in 1 .. Len(pending') : pending'[k] \notin pre') => Unserved
        BY <4>1, <4>2, <4>3
      <4> QED
        BY <3>1, <3>2, <4>4 DEF WakeInv, WakeComing
    <3>3. CASE pc \in {"handler", "functor"}
      BY <1>1, <2>2, <3>1, <3>3 DEF WakeInv
    <3> QED
      BY <1>1, <2>2, <3>2, <3>3 DEF QueueInLoop, CanCall, OwnerAt, UserCode
  <2> QED
    BY <2>1, <2>2
<1>2. ASSUME NEW t \in Callers, Quit(t) PROVE WakeInv'
  BY <1>2 DEF Quit, WakeInv, WakeComing, CanCall, OwnerAt, UserCode
<1>3. ASSUME NEW t \in Callers, WakeUp(t) PROVE WakeInv'
  BY <1>3 DEF WakeUp, WakeInv, WakeComing
<1>4. CASE Loop
  BY <1>4 DEF Loop, OwnerAt, WakeInv, WakeComing
<1>5. CASE Check
  BY <1>5 DEF Check, OwnerAt, WakeInv, WakeComing
<1>6. CASE Poll
  BY <1>6 DEF Poll, OwnerAt, WakeInv
<1>7. CASE PollTimeout
  BY <1>7 DEF PollTimeout, OwnerAt, WakeInv
<1>8. CASE HandleRead
  BY <1>8 DEF HandleRead, OwnerAt, WakeInv
<1>9. ASSUME NEW c \in IoChannels, HandleEvent(c) PROVE WakeInv'
  BY <1>9 DEF HandleEvent, OwnerAt, WakeInv
<1>10. CASE EndHandler
  BY <1>10 DEF EndHandler, OwnerAt, WakeInv
<1>11. CASE BeginPending
  BY <1>11 DEF BeginPending, OwnerAt, WakeInv
<1>12. CASE Swap
  BY <1>12 DEF Swap, OwnerAt, WakeInv
<1>13. CASE RunFunctor
  BY <1>13 DEF RunFunctor, OwnerAt, WakeInv, WakeComing
<1>14. CASE EndFunctor
  BY <1>14 DEF EndFunctor, OwnerAt, WakeInv, WakeComing
<1>15. CASE EndPending
  BY <1>15 DEF EndPending, OwnerAt, WakeInv, WakeComing
<1>16. ASSUME NEW c \in IoChannels, IoEvent(c) PROVE WakeInv'
  BY <1>16 DEF IoEvent, WakeInv, WakeComing
<1>17. CASE UNCHANGED vars
  BY <1>17 DEF vars, WakeInv, WakeComing
<1> QED
  BY <1>1, <1>2, <1>3, <1>4, <1>5, <1>6, <1>7, <1>8, <1>9, <1>10, <1>11,
     <1>12, <1>13, <1>14, <1>15, <1>16, <1>17 DEF Next, OwnerStep

(* A loop never sleeps in poll() over a queued functor or a quit() that no *)
(* wake-up announces, whatever the number of threads.                      *)
THEOREM WakeupsAreNotLost == Spec => []NoLostWakeup
<1>1. Init => WakeInv
  BY DEF Init, WakeInv
<1>2. WakeInv => NoLostWakeup
  BY DEF WakeInv, NoLostWakeup
<1> QED
  BY <1>1, <1>2, TypeCorrect, WakeStep, PTL DEF Spec

(* The batch and the count of functors stay consistent.                    *)
LEMMA BatchStep == TypeOK /\ BatchInv /\ [Next]_vars => BatchInv'
<1> SUFFICES ASSUME TypeOK, BatchInv, [Next]_vars PROVE BatchInv'
  OBVIOUS
<1>1. ASSUME NEW t \in Callers, QueueInLoop(t) PROVE BatchInv'
  BY <1>1 DEF QueueInLoop, TypeOK, BatchInv
<1>2. CASE RunFunctor
  <2>1. Len(functors') = Len(functors) - 1 /\ Len(ran') = Len(ran) + 1
    BY <1>2, HeadTailProperties DEF RunFunctor, TypeOK
  <2> QED
    BY <1>2, <2>1 DEF RunFunctor, TypeOK, BatchInv
<1>3. CASE Swap
  BY <1>3 DEF Swap, OwnerAt, TypeOK, BatchInv
<1>4. CASE \/ \E t \in Callers : Quit(t) \/ WakeUp(t)
           \/ \E c \in IoChannels : HandleEvent(c) \/ IoEvent(c)
  BY <1>4 DEF Quit, WakeUp, HandleEvent, IoEvent, OwnerAt, BatchInv
<1>5. CASE \/ Loop \/ Check \/ Poll \/ PollTimeout \/ HandleRead
           \/ EndHandler \/ BeginPending
  BY <1>5 DEF Loop, Check, Poll, PollTimeout, HandleRead, EndHandler,
              BeginPending, OwnerAt, BatchInv
<1>6. CASE EndFunctor \/ EndPending \/ UNCHANGED vars
  BY <1>6 DEF EndFunctor, EndPending, vars, OwnerAt, BatchInv
<1> QED
  BY <1>1, <1>2, <1>3, <1>4, <1>5, <1>6 DEF Next, OwnerStep

(* Every step of the threads is a step of the serial executor or none.     *)
LEMMA PromiseStep ==
    TypeOK /\ BatchInv /\ [Next]_vars => [Promise!Next]_(Promise!vars)
<1> SUFFICES ASSUME TypeOK, BatchInv, [Next]_vars
             PROVE  [Promise!Next]_(Promise!vars)
  OBVIOUS
<1>1. ASSUME NEW t \in Callers, QueueInLoop(t) PROVE Promise!Submit
  <2>1. Len(functors \o pending) = Len(functors) + Len(pending)
    BY DEF TypeOK
  <2>2. numTasks + 1 = Len(ran) + Len(functors \o pending) + 1
    BY <2>1 DEF BatchInv, TypeOK
  <2>3. functors \o Append(pending, numTasks + 1)
          = Append(functors \o pending, numTasks + 1)
    BY DEF TypeOK
  <2> QED
    BY <1>1, <2>2, <2>3 DEF QueueInLoop, Promise!Submit
<1>2. CASE RunFunctor
  <2>1. functors \o pending # <<>>
    BY <1>2 DEF RunFunctor, TypeOK
  <2>2. Head(functors \o pending) = Head(functors)
    BY <1>2 DEF RunFunctor, TypeOK
  <2>3. Tail(functors \o pending) = Tail(functors) \o pending
    BY <1>2 DEF RunFunctor, TypeOK
  <2> QED
    BY <1>2, <2>1, <2>2, <2>3 DEF RunFunctor, Promise!Next, Promise!RunHead
<1>3. CASE Swap
  <2>1. functors = <<>>
    BY <1>3 DEF Swap, OwnerAt, BatchInv
  <2>2. <<>> \o pending = pending /\ pending \o <<>> = pending
    BY DEF TypeOK
  <2> QED
    BY <1>3, <2>1, <2>2 DEF Swap, Promise!vars
<1>4. CASE \/ \E t \in Callers : Quit(t) \/ WakeUp(t)
           \/ \E c \in IoChannels : HandleEvent(c) \/ IoEvent(c)
  BY <1>4 DEF Quit, WakeUp, HandleEvent, IoEvent, Promise!vars
<1>5. CASE \/ Loop \/ Check \/ Poll \/ PollTimeout \/ HandleRead
           \/ EndHandler \/ BeginPending
  BY <1>5 DEF Loop, Check, Poll, PollTimeout, HandleRead, EndHandler,
              BeginPending, Promise!vars
<1>6. CASE EndFunctor \/ EndPending \/ UNCHANGED vars
  BY <1>6 DEF EndFunctor, EndPending, vars, Promise!vars
<1> QED
  BY <1>1, <1>2, <1>3, <1>4, <1>5, <1>6 DEF Next, OwnerStep, Promise!Next

(* The loop with its batches, its lock and its threads implements the      *)
(* serial executor: every functor at most once, in the order of the calls. *)
THEOREM LoopIsSerialExecutor == Spec => IsSerialExecutor
<1>1. Init => BatchInv
  BY DEF Init, BatchInv
<1>2. Init => Promise!Init
  BY DEF Init, Promise!Init
<1> QED
  BY <1>1, <1>2, TypeCorrect, BatchStep, PromiseStep, PTL
     DEF Spec, IsSerialExecutor, Promise!Spec
===============================================================================
