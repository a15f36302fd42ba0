------------------------------- MODULE LoopThreads -------------------------------
(***************************************************************************)
(* EventLoopThread and EventLoopThreadPool: the base loop's thread starts  *)
(* the I/O threads one after the other and waits for each one's loop, then *)
(* deals the loops out in turn.  Loop i belongs to thread i; NULL is 0.  A *)
(* stretch of code that holds m_mux is one step.                           *)
(***************************************************************************)
EXTENDS Naturals, Sequences, FiniteSets, Channel

CONSTANTS
    MaxThreads,   \* bound on m_threadNum
    MaxPicks,     \* bound on the calls of getNextLoop()
    MaxQuits      \* bound on the loops somebody quits

ASSUME LoopThreadsAssumption ==
    /\ MaxThreads \in Nat \ {0}
    /\ MaxPicks \in Nat
    /\ MaxQuits \in Nat

NULL == 0
Loops == 1 .. MaxThreads

VARIABLES
    threadNum,    \* m_threadNum
    started,      \* m_started
    vecLoops,     \* m_vecLoops
    nextIdx,      \* m_nextIdx
    pc,           \* the place of the base thread in start() and startLoop()
    wpc,          \* the place of each I/O thread in threadFunc()
    mLoop,        \* m_loop of each EventLoopThread
    quits,        \* the loops that were told to quit
    picks,        \* how often each loop was dealt out
    resized       \* setThreadNum() was called after start()

vars == <<threadNum, started, vecLoops, nextIdx, pc, wpc, mLoop, quits, picks, resized>>

pool == <<threadNum, started, nextIdx, picks, resized>>

TypeOK ==
    /\ threadNum \in 0 .. MaxThreads
    /\ started \in BOOLEAN
    /\ vecLoops \in Seq(Loops \cup {NULL})
    /\ Len(vecLoops) <= MaxThreads
    /\ nextIdx \in 0 .. MaxThreads - 1
    /\ pc \in {"idle", "create", "lock", "wait", "woken", "return", "gone", "abort"}
    /\ wpc \in [Loops -> {"none", "construct", "enter", "loop", "clear", "destroy", "done"}]
    /\ mLoop \in [Loops -> Loops \cup {NULL}]
    /\ quits \subseteq Loops
    /\ picks \in [Loops -> Nat]
    /\ resized \in BOOLEAN

Init ==
    /\ threadNum = 0
    /\ started = FALSE
    /\ vecLoops = <<>>
    /\ nextIdx = 0
    /\ pc = "idle"
    /\ wpc = [i \in Loops |-> "none"]
    /\ mLoop = [i \in Loops |-> NULL]
    /\ quits = {}
    /\ picks = [i \in Loops |-> 0]
    /\ resized = FALSE

-------------------------------------------------------------------------------
(* The base thread.  m_vecLoops is as long as the loop of start() has got. *)
Cur == Len(vecLoops) + 1

SetThreadNum(n) ==
    /\ pc = "idle"
    /\ threadNum' = n
    /\ resized' = (resized \/ started)
    /\ UNCHANGED <<started, vecLoops, nextIdx, pc, wpc, mLoop, quits, picks>>

(* assert(!m_started)                                                      *)
Start ==
    /\ pc = "idle"
    /\ started' = TRUE
    /\ pc' = IF started THEN "abort" ELSE "create"
    /\ UNCHANGED <<threadNum, vecLoops, nextIdx, wpc, mLoop, quits, picks, resized>>

CreateThread ==
    /\ pc = "create"
    /\ Cur <= threadNum
    /\ wpc' = [wpc EXCEPT ![Cur] = "construct"]
    /\ pc' = "lock"
    /\ UNCHANGED <<pool, vecLoops, mLoop, quits>>

StartDone ==
    /\ pc = "create"
    /\ Cur > threadNum
    /\ pc' = "idle"
    /\ UNCHANGED <<pool, vecLoops, wpc, mLoop, quits>>

(* Mutant: an if in the place of the while: waits at most once.            *)
TestLoopOnce ==
    /\ pc \in {"lock", "woken"}
    /\ pc' = IF mLoop[Cur] = NULL /\ pc = "lock" THEN "wait" ELSE "return"
    /\ UNCHANGED <<pool, vecLoops, wpc, mLoop, quits>>

TestLoop ==
    /\ pc \in {"lock", "woken"}
    /\ pc' = IF mLoop[Cur] = NULL THEN "wait" ELSE "return"
    /\ UNCHANGED <<pool, vecLoops, wpc, mLoop, quits>>

(* m_cond.wait() may return for no reason.                                 *)
SpuriousWakeup ==
    /\ pc = "wait"
    /\ pc' = "woken"
    /\ UNCHANGED <<pool, vecLoops, wpc, mLoop, quits>>

(* startLoop() reads m_loop again, after the mutex is released.            *)
StartLoopReturn ==
    /\ pc = "return"
    /\ vecLoops' = Append(vecLoops, mLoop[Cur])
    /\ pc' = "create"
    /\ UNCHANGED <<pool, wpc, mLoop, quits>>

-------------------------------------------------------------------------------
(* An I/O thread.  The init callback runs before m_loop is set.            *)

(* Mutant: the starting thread is not notified.                            *)
PublishSilently(i) ==
    /\ wpc[i] = "construct"
    /\ mLoop' = [mLoop EXCEPT ![i] = i]
    /\ wpc' = [wpc EXCEPT ![i] = "enter"]
    /\ UNCHANGED <<pool, vecLoops, pc, quits>>

Publish(i) ==
    /\ wpc[i] = "construct"
    /\ mLoop' = [mLoop EXCEPT ![i] = i]
    /\ wpc' = [wpc EXCEPT ![i] = "enter"]
    /\ pc' = IF pc = "wait" /\ i = Cur THEN "woken" ELSE pc
    /\ UNCHANGED <<pool, vecLoops, quits>>

(* loop() sets m_isRunning: a quit() before this is forgotten.             *)
EnterLoop(i) ==
    /\ wpc[i] = "enter"
    /\ wpc' = [wpc EXCEPT ![i] = "loop"]
    /\ UNCHANGED <<pool, vecLoops, pc, mLoop, quits>>

(* Whoever has the loop, from the init callback or the pool, may quit it.  *)
QuitLoop(i) ==
    /\ wpc[i] = "loop"
    /\ Cardinality(quits) < MaxQuits
    /\ quits' = quits \cup {i}
    /\ wpc' = [wpc EXCEPT ![i] = "clear"]
    /\ UNCHANGED <<pool, vecLoops, pc, mLoop>>

(* m_mux is released before the loop on the thread's stack is destroyed.   *)
ClearLoop(i) ==
    /\ wpc[i] = "clear"
    /\ mLoop' = [mLoop EXCEPT ![i] = NULL]
    /\ wpc' = [wpc EXCEPT ![i] = "destroy"]
    /\ UNCHANGED <<pool, vecLoops, pc, quits>>

(* What ~EventLoop() leaves of the wake-up channel, which the constructor  *)
(* enabled: disableAll(), then remove().                                   *)
WakeUpChannelAtEnd == Remove(DisableAll(EnableRead(NewChannel)))

(* ~EventLoop() of the loop; an assertion that fails ends the process.     *)
DestroyLoop(i) ==
    /\ wpc[i] = "destroy"
    /\ wpc' = [wpc EXCEPT ![i] = "done"]
    /\ pc' = IF WakeUpChannelAtEnd.fail = "none" THEN pc ELSE "abort"
    /\ UNCHANGED <<pool, vecLoops, mLoop, quits>>

-------------------------------------------------------------------------------
(* Mutant: the index is not moved on.                                      *)
NextIdxStays == nextIdx

NextIdx == (nextIdx + 1) % threadNum

(* assert(m_started); an index past the end of m_vecLoops, or a remainder  *)
(* by 0, ends the process too.                                             *)
GetNextLoop ==
    /\ pc = "idle"
    /\ IF ~started \/ (vecLoops # <<>> /\ (nextIdx >= Len(vecLoops) \/ threadNum = 0))
       THEN /\ pc' = "abort"
            /\ UNCHANGED <<nextIdx, picks>>
       ELSE /\ pc' = "idle"
            /\ nextIdx' = IF vecLoops = <<>> THEN nextIdx ELSE NextIdx
            /\ picks' = IF vecLoops = <<>> THEN picks
                        ELSE [picks EXCEPT ![nextIdx + 1] = @ + 1]
    /\ UNCHANGED <<threadNum, started, vecLoops, wpc, mLoop, quits, resized>>

(* ~EventLoopThread() of the first thread: quit() through the null pointer *)
(* when there is no loop, and a joinable std::thread destroyed when there  *)
(* is one.                                                                 *)
DestroyPool ==
    /\ pc = "idle"
    /\ pc' = IF vecLoops = <<>> THEN "gone" ELSE "abort"
    /\ UNCHANGED <<pool, vecLoops, wpc, mLoop, quits>>

-------------------------------------------------------------------------------
(* Nothing happens after the end of the process.                           *)
Alive == pc # "abort"

Base ==
    \/ CreateThread \/ StartDone \/ TestLoop \/ StartLoopReturn

Io(i) ==
    Alive /\ (Publish(i) \/ EnterLoop(i) \/ ClearLoop(i) \/ DestroyLoop(i))

Next ==
    \/ \E n \in 0 .. MaxThreads : SetThreadNum(n)
    \/ Start
    \/ Base
    \/ SpuriousWakeup
    \/ GetNextLoop /\ \A i \in Loops : picks[i] < MaxPicks
    \/ DestroyPool
    \/ \E i \in Loops : Io(i) \/ (Alive /\ QuitLoop(i))

(* Threads that can run do, and get m_mux in the end.  Nobody need quit a  *)
(* loop, and no wait need end by itself.                                   *)
Fairness ==
    /\ WF_vars(Base)
    /\ \A i \in Loops : WF_vars(Io(i))

Spec == Init /\ [][Next]_vars /\ Fairness

-------------------------------------------------------------------------------
(* startLoop() returns for every thread it has started, whoever of the two *)
(* gets the mutex first, unless before that a loop that was told to quit   *)
(* has ended the process in its destructor.                                *)
StartLoopReturns ==
    \A i \in Loops :
        (wpc[i] # "none") ~> (Len(vecLoops) >= i \/ \E j \in quits : wpc[j] = "done")

(* The pool's loops are those of its threads, in the order they were       *)
(* started; a null pointer is among them only if that loop was quit before *)
(* startLoop() had returned, and one that is there has been set up.        *)
StartedLoopsUsable ==
    \A i \in DOMAIN vecLoops :
        /\ vecLoops[i] = i \/ (vecLoops[i] = NULL /\ i \in quits)
        /\ wpc[i] \notin {"none", "construct"}

(* getNextLoop() never falls out of m_vecLoops and deals the loops out in  *)
(* turn, so that none is ahead of another by more than one connection, as  *)
(* long as m_threadNum stays what it was in start().                       *)
BalancedPicks ==
    started /\ ~resized =>
        /\ vecLoops # <<>> => nextIdx < threadNum
        /\ \A i, j \in 1 .. threadNum : picks[i] <= picks[j] + 1

===============================================================================
