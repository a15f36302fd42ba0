------------------------------ MODULE EventLoop -------------------------------
(***************************************************************************)
(* One EventLoop (src/src/net/EventLoop.cc) with its EpollPoller's wait,   *)
(* used by its own thread and by other threads.                            *)
(*                                                                         *)
(* The owner thread runs loop(): wait in poll(), handle the active         *)
(* channels, run the pending functors, test m_isRunning.  Other threads    *)
(* hand work over with queueInLoop() and stop the loop with quit(); both   *)
(* write shared state first and write the wake-up eventfd in a second      *)
(* step, and everything may happen in between.  Callbacks and functors are *)
(* user code on the owner thread; they too may call queueInLoop and quit.  *)
(***************************************************************************)
EXTENDS Naturals, Sequences, FiniteSets

CONSTANTS
    Owner,            \* the thread the loop was created in (m_theradId)
    Threads,          \* the other threads that hold a pointer to the loop
    IoChannels,       \* registered channels other than the wake-up channel
    WakeChannel,      \* m_wakeUpChannel
    KInitEventSize,   \* initial length of EpollPoller::m_vecEvents
    MaxTasks          \* bound: number of queueInLoop calls

ASSUME EventLoopAssumption ==
    /\ Owner \notin Threads
    /\ WakeChannel \notin IoChannels
    /\ KInitEventSize \in Nat \ {0}
    /\ MaxTasks \in Nat

VARIABLES
    pc,         \* where the owner thread is
    isRunning,  \* m_isRunning
    calling,    \* m_callingPendingFunctors
    active,     \* the part of m_channelList not handled yet
    vecSize,    \* m_vecEvents.size()
    evfd,       \* the eventfd counter: 0, or 1 for every positive value
    ioReady,    \* channels of IoChannels the kernel would report
    pending,    \* m_vecPendingFunctor
    functors,   \* what doPendingFunc() swapped out and has not started
    waking,     \* callers between their write of shared state and wakeUp()
    numTasks,   \* number of functors queued; a functor is its number
    pre,        \* functors queued by the owner outside loop()
    ran         \* functors started, oldest first

vars == <<pc, isRunning, calling, active, vecSize, evfd, ioReady, pending,
          functors, waking, numTasks, pre, ran>>

Callers == Threads \cup {Owner}

Channels == IoChannels \cup {WakeChannel}

Tasks == 1 .. MaxTasks

(* "idle": outside loop(); "check": at the while condition; "handle": in   *)
(* the for over m_channelList; "handler" and "functor": in user code.      *)
PCs == {"idle", "check", "poll", "handle", "handler", "swap", "run", "functor"}

UserCode == {"idle", "handler", "functor"}

TypeOK ==
    /\ pc \in PCs
    /\ isRunning \in BOOLEAN
    /\ calling \in BOOLEAN
    /\ active \subseteq Channels
    /\ vecSize \in Nat \ {0}
    /\ evfd \in {0, 1}
    /\ ioReady \subseteq IoChannels
    /\ pending \in Seq(Tasks)
    /\ functors \in Seq(Tasks)
    /\ ran \in Seq(Tasks)
    /\ waking \subseteq Callers
    /\ numTasks \in 0 .. MaxTasks
    /\ pre \subseteq Tasks

Init ==
    /\ pc = "idle"
    /\ isRunning = FALSE
    /\ calling = FALSE
    /\ active = {}
    /\ vecSize = KInitEventSize
    /\ evfd = 0
    /\ ioReady = {}
    /\ pending = <<>>
    /\ functors = <<>>
    /\ waking = {}
    /\ numTasks = 0
    /\ pre = {}
    /\ ran = <<>>

(* The owner executes statements only when it is not inside wakeUp().      *)
OwnerAt(places) == pc \in places /\ Owner \notin waking

CanCall(t) == IF t = Owner THEN OwnerAt(UserCode) ELSE t \notin waking

-------------------------------------------------------------------------------
(* Calls from user code, on any thread.                                    *)

(* Mutant: queueInLoop() without the test of m_callingPendingFunctors.      *)
QueueInLoopNoNestedWake(t) ==
    /\ CanCall(t)
    /\ numTasks < MaxTasks
    /\ numTasks' = numTasks + 1
    /\ pending' = Append(pending, numTasks + 1)
    /\ waking' = IF t # Owner THEN waking \cup {t} ELSE waking
    /\ pre' = IF t = Owner /\ pc = "idle" THEN pre \cup {numTasks + 1} ELSE pre
    /\ UNCHANGED <<pc, isRunning, calling, active, vecSize, evfd, ioReady,
                   functors, ran>>

(* queueInLoop(): push under the lock, then decide whether to wake up.     *)
(* runInLoop() is this call on a foreign thread, and on the owner it is    *)
(* the functor itself, executed as part of the user code that calls it.    *)
QueueInLoop(t) ==
    /\ CanCall(t)
    /\ numTasks < MaxTasks
    /\ numTasks' = numTasks + 1
    /\ pending' = Append(pending, numTasks + 1)
    /\ waking' = IF t # Owner \/ calling THEN waking \cup {t} ELSE waking
    /\ pre' = IF t = Owner /\ pc = "idle" THEN pre \cup {numTasks + 1} ELSE pre
    /\ UNCHANGED <<pc, isRunning, calling, active, vecSize, evfd, ioReady,
                   functors, ran>>

(* Mutant: quit() without wakeUp().                                        *)
QuitNoWake(t) ==
    /\ CanCall(t)
    /\ isRunning' = FALSE
    /\ UNCHANGED <<pc, calling, active, vecSize, evfd, ioReady, pending,
                   functors, waking, numTasks, pre, ran>>

(* quit(): clear m_isRunning, then wake the loop up from a foreign thread. *)
Quit(t) ==
    /\ CanCall(t)
    /\ isRunning' = FALSE
    /\ waking' = IF t # Owner THEN waking \cup {t} ELSE waking
    /\ UNCHANGED <<pc, calling, active, vecSize, evfd, ioReady, pending,
                   functors, numTasks, pre, ran>>

(* wakeUp(): the write to the eventfd.                                     *)
WakeUp(t) ==
    /\ t \in waking
    /\ evfd' = 1
    /\ waking' = waking \ {t}
    /\ UNCHANGED <<pc, isRunning, calling, active, vecSize, ioReady, pending,
                   functors, numTasks, pre, ran>>

-------------------------------------------------------------------------------
(* The owner thread in loop().                                             *)

Loop ==
    /\ OwnerAt({"idle"})
    /\ isRunning' = TRUE
    /\ pc' = "check"
    /\ UNCHANGED <<calling, active, vecSize, evfd, ioReady, pending, functors,
                   waking, numTasks, pre, ran>>

(* while (m_isRunning)                                                     *)
Check ==
    /\ OwnerAt({"check"})
    /\ pc' = IF isRunning THEN "poll" ELSE "idle"
    /\ UNCHANGED <<isRunning, calling, active, vecSize, evfd, ioReady, pending,
                   functors, waking, numTasks, pre, ran>>

Ready == ioReady \cup (IF evfd = 1 THEN {WakeChannel} ELSE {})

(* What epoll_wait may put into an event vector of length n: as many ready *)
(* channels as fit, any of them.                                           *)
Reports(n) == {S \in SUBSET Ready :
                  Cardinality(S) = IF Cardinality(Ready) < n
                                      THEN Cardinality(Ready) ELSE n}

(* Mutant: the event vector keeps its length.                              *)
PollFixedVector ==
    /\ OwnerAt({"poll"})
    /\ Ready # {}
    /\ active' \in Reports(vecSize)
    /\ pc' = "handle"
    /\ UNCHANGED <<isRunning, calling, vecSize, evfd, ioReady, pending, functors,
                   waking, numTasks, pre, ran>>

(* poll() returns events and doubles a vector that was filled.             *)
Poll ==
    /\ OwnerAt({"poll"})
    /\ Ready # {}
    /\ active' \in Reports(vecSize)
    /\ vecSize' = IF Cardinality(active') = vecSize THEN 2 * vecSize ELSE vecSize
    /\ pc' = "handle"
    /\ UNCHANGED <<isRunning, calling, evfd, ioReady, pending, functors, waking,
                   numTasks, pre, ran>>

(* Mutant: an iteration without events skips doPendingFunc().              *)
PollTimeoutContinue ==
    /\ OwnerAt({"poll"})
    /\ Ready = {}
    /\ pc' = "check"
    /\ UNCHANGED <<isRunning, calling, active, vecSize, evfd, ioReady, pending,
                   functors, waking, numTasks, pre, ran>>

(* poll() returns without events: 500 ms have passed, or EINTR.            *)
PollTimeout ==
    /\ OwnerAt({"poll"})
    /\ Ready = {}
    /\ active' = {}
    /\ pc' = "handle"
    /\ UNCHANGED <<isRunning, calling, vecSize, evfd, ioReady, pending, functors,
                   waking, numTasks, pre, ran>>

(* The wake-up channel's read callback: the read resets the counter.       *)
HandleRead ==
    /\ OwnerAt({"handle"})
    /\ WakeChannel \in active
    /\ active' = active \ {WakeChannel}
    /\ evfd' = 0
    /\ UNCHANGED <<pc, isRunning, calling, vecSize, ioReady, pending, functors,
                   waking, numTasks, pre, ran>>

(* Another channel's callback starts; it may or may not drain its fd.      *)
HandleEvent(c) ==
    /\ OwnerAt({"handle"})
    /\ c \in active \cap IoChannels
    /\ active' = active \ {c}
    /\ ioReady' \in {ioReady, ioReady \ {c}}
    /\ pc' = "handler"
    /\ UNCHANGED <<isRunning, calling, vecSize, evfd, pending, functors, waking,
                   numTasks, pre, ran>>

EndHandler ==
    /\ OwnerAt({"handler"})
    /\ pc' = "handle"
    /\ UNCHANGED <<isRunning, calling, active, vecSize, evfd, ioReady, pending,
                   functors, waking, numTasks, pre, ran>>

(* doPendingFunc(), in the order of its statements.                        *)
BeginPending ==
    /\ OwnerAt({"handle"})
    /\ active = {}
    /\ calling' = TRUE
    /\ pc' = "swap"
    /\ UNCHANGED <<isRunning, active, vecSize, evfd, ioReady, pending, functors,
                   waking, numTasks, pre, ran>>

(* Mutant: the pending functors are copied out and not swapped out.        *)
SwapCopies ==
    /\ OwnerAt({"swap"})
    /\ functors' = pending
    /\ pc' = "run"
    /\ UNCHANGED <<isRunning, calling, active, vecSize, evfd, ioReady, pending,
                   waking, numTasks, pre, ran>>

Swap ==
    /\ OwnerAt({"swap"})
    /\ functors' = pending
    /\ pending' = <<>>
    /\ pc' = "run"
    /\ UNCHANGED <<isRunning, calling, active, vecSize, evfd, ioReady, waking,
                   numTasks, pre, ran>>

RunFunctor ==
    /\ OwnerAt({"run"})
    /\ functors # <<>>
    /\ ran' = Append(ran, Head(functors))
    /\ functors' = Tail(functors)
    /\ pc' = "functor"
    /\ UNCHANGED <<isRunning, calling, active, vecSize, evfd, ioReady, pending,
                   waking, numTasks, pre>>

EndFunctor ==
    /\ OwnerAt({"functor"})
    /\ pc' = "run"
    /\ UNCHANGED <<isRunning, calling, active, vecSize, evfd, ioReady, pending,
                   functors, waking, numTasks, pre, ran>>

EndPending ==
    /\ OwnerAt({"run"})
    /\ functors = <<>>
    /\ calling' = FALSE
    /\ pc' = "check"
    /\ UNCHANGED <<isRunning, active, vecSize, evfd, ioReady, pending, functors,
                   waking, numTasks, pre, ran>>

-------------------------------------------------------------------------------
(* The kernel: a watched descriptor becomes ready.                         *)
IoEvent(c) ==
    /\ c \notin ioReady
    /\ ioReady' = ioReady \cup {c}
    /\ UNCHANGED <<pc, isRunning, calling, active, vecSize, evfd, pending,
                   functors, waking, numTasks, pre, ran>>

OwnerStep ==
    \/ Loop \/ Check \/ Poll \/ PollTimeout \/ HandleRead
    \/ \E c \in IoChannels : HandleEvent(c)
    \/ EndHandler \/ BeginPending \/ Swap \/ RunFunctor \/ EndFunctor
    \/ EndPending

Next ==
    \/ \E t \in Callers : QueueInLoop(t) \/ Quit(t) \/ WakeUp(t)
    \/ OwnerStep
    \/ \E c \in IoChannels : IoEvent(c)

(* The loop thread is scheduled, epoll_wait returns when something is      *)
(* ready, callbacks and functors return, and a thread inside wakeUp()      *)
(* finishes it.  Nothing forces a call of loop(), queueInLoop() or quit(). *)
Fairness ==
    /\ WF_vars(\/ Check \/ Poll \/ HandleRead
               \/ \E c \in IoChannels : HandleEvent(c)
               \/ EndHandler \/ BeginPending \/ Swap \/ RunFunctor
               \/ EndFunctor \/ EndPending)
    /\ \A t \in Callers : WF_vars(WakeUp(t))

Spec == Init /\ [][Next]_vars /\ Fairness

-------------------------------------------------------------------------------
(* Properties.                                                             *)

InQueue(i) == \E k \in 1 .. Len(pending) : pending[k] = i

Started(i) == \E k \in 1 .. Len(ran) : ran[k] = i

(* Something will end the wait in poll() without the time-out.             *)
WakeComing == evfd = 1 \/ waking # {}

(* A loop that waits in poll() while a functor is queued, or after quit(), *)
(* is always about to be woken up: the eventfd is readable or a caller is  *)
(* on its way to write it.  Only functors the owner thread queued before   *)
(* it entered loop() may wait for the time-out.                            *)
NoLostWakeup ==
    pc = "poll" =>
        /\ (\E k \in 1 .. Len(pending) : pending[k] \notin pre) => WakeComing
        /\ ~isRunning => WakeComing

(* The executor promised to the callers of queueInLoop().                  *)
Promise == INSTANCE Executor WITH queue <- functors \o pending, done <- ran

(* Whatever the threads do, the batches swapped out by doPendingFunc() run *)
(* every functor at most once and in the order of the calls.               *)
IsSerialExecutor == Promise!Spec

(* A functor queued from anywhere but the owner's code outside loop() is   *)
(* run, or the loop is left, with no help from the 500 ms time-out.        *)
QueuedFunctorRuns ==
    \A i \in Tasks :
        (InQueue(i) /\ i \notin pre) ~> (Started(i) \/ pc = "idle")

(* A descriptor that is ready is reported to the loop, however many others *)
(* are: the event vector grows until all of them fit, whichever of them    *)
(* the kernel prefers.                                                     *)
ReadyChannelReported ==
    \A c \in IoChannels : (c \in ioReady) ~> (c \in active \/ pc = "idle")

(* After quit() a running loop() returns, with no help from the time-out.  *)
QuitEndsLoop == (pc # "idle" /\ ~isRunning) ~> (pc = "idle")

(* If the 500 ms time-out of poll() takes effect, every queued functor     *)
(* runs, those of the owner from before loop() too, unless the loop is     *)
(* left.                                                                   *)
EveryFunctorRuns ==
    WF_vars(PollTimeout) =>
        \A i \in Tasks : InQueue(i) ~> (Started(i) \/ pc = "idle")
===============================================================================
