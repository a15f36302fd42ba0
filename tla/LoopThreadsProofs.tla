--------------------------- MODULE LoopThreadsProofs ---------------------------
(***************************************************************************)
(* Proofs about LoopThreads for any number of threads, of picks and of     *)
(* loops that are quit.                                                    *)
(***************************************************************************)
EXTENDS LoopThreads, SequenceTheorems, TLAPS

(* The base thread is inside startLoop().                                  *)
InStartLoop == pc \in {"lock", "wait", "woken", "return"}

(* Where start() has got to: m_threadNum is what it was when start() began *)
(* as long as resized is false.  A process that has ended may have got     *)
(* anywhere: a loop that was quit ends it from another thread.             *)
StartInv ==
    /\ ~started => vecLoops = <<>> /\ ~resized
    /\ InStartLoop => started /\ ~resized /\ Cur <= threadNum
    /\ pc = "create" => started /\ ~resized /\ Len(vecLoops) <= threadNum
    /\ started /\ ~resized /\ pc \in {"idle", "gone"} => Len(vecLoops) = threadNum

(* The place of thread i, given how far start() has got, and its m_loop.   *)
ThreadInv ==
    \A i \in Loops :
        /\ i < Cur => wpc[i] \notin {"none", "construct"}
        /\ i = Cur /\ InStartLoop => wpc[i] # "none"
        /\ i = Cur /\ pc = "return" => wpc[i] # "construct"
        /\ i = Cur /\ pc \in {"idle", "create", "gone"} => wpc[i] = "none"
        /\ i > Cur => wpc[i] = "none"
        /\ mLoop[i] = IF wpc[i] \in {"enter", "loop", "clear"} THEN i ELSE NULL
        /\ wpc[i] \in {"clear", "destroy", "done"} => i \in quits

(* The loops up to m_nextIdx are one pick ahead of the others.             *)
PickInv ==
    /\ ~started \/ InStartLoop \/ pc = "create" =>
           nextIdx = 0 /\ \A i \in Loops : picks[i] = 0
    /\ started /\ ~resized =>
           /\ vecLoops # <<>> => nextIdx < threadNum
           /\ \E k \in Nat : \A i \in 1 .. threadNum :
                  picks[i] = IF i <= nextIdx THEN k + 1 ELSE k

IInv == TypeOK /\ StartInv /\ ThreadInv /\ StartedLoopsUsable

(* (m_nextIdx + 1) % m_threadNum is the next index, and 0 after the last.  *)
LEMMA WrapAround ==
    ASSUME NEW n \in Nat \ {0}, NEW i \in Nat
    PROVE  /\ (i + 1) % n \in 0 .. n - 1
           /\ i < n => (i + 1) % n = IF i + 1 = n THEN 0 ELSE i + 1
<1>1. (i + 1) % n \in 0 .. n - 1
  OBVIOUS
<1>2. i + 1 < n => (i + 1) % n = i + 1
  OBVIOUS
<1>3. i + 1 = n => (i + 1) % n = 0
  OBVIOUS
<1> QED
  BY <1>1, <1>2, <1>3

(* TypeOK and StartInv together are inductive: the vector grows by one     *)
(* loop only while it is shorter than m_threadNum.                         *)
LEMMA TypeStep == TypeOK /\ StartInv /\ [Next]_vars => TypeOK' /\ StartInv'
<1> SUFFICES ASSUME TypeOK, StartInv, [Next]_vars PROVE TypeOK' /\ StartInv'
  OBVIOUS
<1> USE LoopThreadsAssumption DEF Loops, NULL
<1>1. ASSUME NEW n \in 0 .. MaxThreads, SetThreadNum(n) PROVE TypeOK' /\ StartInv'
  BY <1>1 DEF TypeOK, StartInv, InStartLoop, Cur, SetThreadNum
<1>2. CASE Start
  BY <1>2 DEF TypeOK, StartInv, InStartLoop, Cur, Start
<1>3. CASE CreateThread
  BY <1>3 DEF TypeOK, StartInv, InStartLoop, Cur, CreateThread, pool
<1>4. CASE StartDone
  BY <1>4 DEF TypeOK, StartInv, InStartLoop, Cur, StartDone, pool
<1>5. CASE TestLoop
  BY <1>5 DEF TypeOK, StartInv, InStartLoop, Cur, TestLoop, pool
<1>6. CASE SpuriousWakeup
  BY <1>6 DEF TypeOK, StartInv, InStartLoop, Cur, SpuriousWakeup, pool
<1>7. CASE StartLoopReturn
  <2>1. Cur \in Loops
    BY <1>7 DEF TypeOK, StartInv, InStartLoop, Cur, StartLoopReturn
  <2>2. mLoop[Cur] \in Loops \cup {NULL}
    BY <2>1 DEF TypeOK
  <2>3. vecLoops' \in Seq(Loops \cup {NULL}) /\ Len(vecLoops') = Len(vecLoops) + 1
    BY <1>7, <2>2, AppendProperties DEF TypeOK, StartLoopReturn
  <2> QED
    BY <1>7, <2>3 DEF TypeOK, StartInv, InStartLoop, Cur, StartLoopReturn, pool
<1>8. CASE GetNextLoop
  <2>1. CASE nextIdx' = nextIdx /\ picks' = picks
    BY <1>8, <2>1 DEF TypeOK, StartInv, InStartLoop, Cur, GetNextLoop
  <2>2. CASE ~(nextIdx' = nextIdx /\ picks' = picks)
    <3>1. threadNum \in Nat \ {0} /\ nextIdx \in Nat /\ nextIdx' = (nextIdx + 1) % threadNum
      BY <1>8, <2>2 DEF TypeOK, GetNextLoop, NextIdx
    <3>2. nextIdx' \in 0 .. MaxThreads - 1
      BY <3>1, WrapAround DEF TypeOK
    <3>3. picks' \in [Loops -> Nat]
      <4>1. picks \in [Loops -> Nat]
        BY DEF TypeOK
      <4>2. picks' = picks \/ picks' = [picks EXCEPT ![nextIdx + 1] = @ + 1]
        BY <1>8, Zenon DEF GetNextLoop
      <4> QED
        BY <4>1, <4>2
    <3> QED
      BY <1>8, <3>2, <3>3 DEF TypeOK, StartInv, InStartLoop, Cur, GetNextLoop
  <2> QED
    BY <2>1, <2>2
<1>9. CASE DestroyPool
  BY <1>9 DEF TypeOK, StartInv, InStartLoop, Cur, DestroyPool, pool
<1>10. ASSUME NEW i \in Loops, Publish(i) PROVE TypeOK' /\ StartInv'
  BY <1>10 DEF TypeOK, StartInv, InStartLoop, Cur, Publish, pool
<1>11. ASSUME NEW i \in Loops, EnterLoop(i) PROVE TypeOK' /\ StartInv'
  BY <1>11 DEF TypeOK, StartInv, InStartLoop, Cur, EnterLoop, pool
<1>12. ASSUME NEW i \in Loops, ClearLoop(i) PROVE TypeOK' /\ StartInv'
  BY <1>12 DEF TypeOK, StartInv, InStartLoop, Cur, ClearLoop, pool
<1>13. ASSUME NEW i \in Loops, QuitLoop(i) PROVE TypeOK' /\ StartInv'
  BY <1>13 DEF TypeOK, StartInv, InStartLoop, Cur, QuitLoop, pool
<1>14. ASSUME NEW i \in Loops, DestroyLoop(i) PROVE TypeOK' /\ StartInv'
  <2>1. pc' \in {pc, "abort"}
    BY <1>14 DEF DestroyLoop
  <2> QED
    BY <1>14, <2>1 DEF TypeOK, StartInv, InStartLoop, Cur, DestroyLoop, pool
<1>15. CASE UNCHANGED vars
  BY <1>15 DEF TypeOK, StartInv, InStartLoop, Cur, vars
<1> QED
  BY <1>1, <1>2, <1>3, <1>4, <1>5, <1>6, <1>7, <1>8, <1>9, <1>10, <1>11, <1>12,
     <1>13, <1>14, <1>15 DEF Next, Base, Io

(* Each thread's place, its m_loop and what the pool has got of it.  Only  *)
(* the thread being started is ahead of the vector, and its m_loop is read *)
(* after it was seen set: it is still set unless the loop has been quit.   *)
LEMMA ThreadStep == IInv /\ [Next]_vars => ThreadInv' /\ StartedLoopsUsable'
<1> SUFFICES ASSUME TypeOK, StartInv, ThreadInv, StartedLoopsUsable, [Next]_vars
             PROVE  ThreadInv' /\ StartedLoopsUsable'
  BY DEF IInv
<1> USE LoopThreadsAssumption DEF Loops, NULL
<1>1. ASSUME NEW n \in 0 .. MaxThreads, SetThreadNum(n) PROVE ThreadInv' /\ StartedLoopsUsable'
  BY <1>1 DEF TypeOK, ThreadInv, StartedLoopsUsable, InStartLoop, Cur, SetThreadNum
<1>2. CASE Start
  BY <1>2 DEF TypeOK, ThreadInv, StartedLoopsUsable, InStartLoop, Cur, Start
<1>3. CASE CreateThread
  BY <1>3, SMTT(20) DEF TypeOK, ThreadInv, StartedLoopsUsable, InStartLoop, Cur, CreateThread, pool
<1>4. CASE StartDone
  BY <1>4 DEF TypeOK, ThreadInv, StartedLoopsUsable, InStartLoop, Cur, StartDone, pool
<1>5. CASE TestLoop
  BY <1>5 DEF TypeOK, StartInv, ThreadInv, StartedLoopsUsable, InStartLoop, Cur, TestLoop, pool
<1>6. CASE SpuriousWakeup
  BY <1>6 DEF TypeOK, ThreadInv, StartedLoopsUsable, InStartLoop, Cur, SpuriousWakeup, pool
<1>7. CASE StartLoopReturn
  <2>1. Cur \in Loops /\ wpc[Cur] \notin {"none", "construct"}
    BY <1>7 DEF TypeOK, StartInv, ThreadInv, InStartLoop, Cur, StartLoopReturn
  <2>2. mLoop[Cur] = Cur \/ (mLoop[Cur] = NULL /\ Cur \in quits)
    BY <2>1 DEF TypeOK, ThreadInv
  <2>3. /\ Len(vecLoops') = Len(vecLoops) + 1
        /\ \A i \in 1 .. Len(vecLoops) : vecLoops'[i] = vecLoops[i]
        /\ vecLoops'[Cur] = mLoop[Cur]
    BY <1>7, <2>1, AppendProperties DEF TypeOK, StartLoopReturn, Cur
  <2>4. DOMAIN vecLoops' = 1 .. Len(vecLoops) + 1 /\ DOMAIN vecLoops = 1 .. Len(vecLoops)
    BY <1>7, <2>1 DEF TypeOK, StartLoopReturn, Cur
  <2>5. StartedLoopsUsable'
    BY <1>7, <2>1, <2>2, <2>3, <2>4 DEF TypeOK, StartedLoopsUsable, StartLoopReturn, Cur
  <2>6. ThreadInv'
    BY <1>7, <2>1, <2>3 DEF TypeOK, ThreadInv, InStartLoop, Cur, StartLoopReturn
  <2> QED
    BY <2>5, <2>6
<1>8. CASE GetNextLoop
  BY <1>8 DEF TypeOK, ThreadInv, StartedLoopsUsable, InStartLoop, Cur, GetNextLoop
<1>9. CASE DestroyPool
  BY <1>9 DEF TypeOK, ThreadInv, StartedLoopsUsable, InStartLoop, Cur, DestroyPool, pool
<1>10. ASSUME NEW i \in Loops, Publish(i) PROVE ThreadInv' /\ StartedLoopsUsable'
  BY <1>10 DEF TypeOK, ThreadInv, StartedLoopsUsable, InStartLoop, Cur, Publish, pool
<1>11. ASSUME NEW i \in Loops, EnterLoop(i) PROVE ThreadInv' /\ StartedLoopsUsable'
  BY <1>11 DEF TypeOK, ThreadInv, StartedLoopsUsable, InStartLoop, Cur, EnterLoop, pool
<1>12. ASSUME NEW i \in Loops, ClearLoop(i) PROVE ThreadInv' /\ StartedLoopsUsable'
  BY <1>12 DEF TypeOK, ThreadInv, StartedLoopsUsable, InStartLoop, Cur, ClearLoop, pool
<1>13. ASSUME NEW i \in Loops, QuitLoop(i) PROVE ThreadInv' /\ StartedLoopsUsable'
  BY <1>13 DEF TypeOK, ThreadInv, StartedLoopsUsable, InStartLoop, Cur, QuitLoop, pool
<1>14. ASSUME NEW i \in Loops, DestroyLoop(i) PROVE ThreadInv' /\ StartedLoopsUsable'
  <2>1. /\ pc' \in {pc, "abort"}
        /\ wpc[i] = "destroy" /\ wpc' = [wpc EXCEPT ![i] = "done"]
        /\ UNCHANGED <<vecLoops, mLoop, quits>>
    BY <1>14 DEF DestroyLoop
  <2>2. \A j \in Loops : wpc'[j] = IF j = i THEN "done" ELSE wpc[j]
    BY <2>1 DEF TypeOK
  <2>3. ThreadInv'
    BY <2>1, <2>2 DEF ThreadInv, InStartLoop, Cur
  <2>4. DOMAIN vecLoops \subseteq Loops
    BY DEF TypeOK
  <2>5. StartedLoopsUsable'
    BY <2>1, <2>2, <2>4 DEF StartedLoopsUsable
  <2> QED
    BY <2>3, <2>5
<1>15. CASE UNCHANGED vars
  BY <1>15 DEF ThreadInv, StartedLoopsUsable, InStartLoop, Cur, vars
<1> QED
  BY <1>1, <1>2, <1>3, <1>4, <1>5, <1>6, <1>7, <1>8, <1>9, <1>10, <1>11, <1>12,
     <1>13, <1>14, <1>15 DEF Next, Base, Io

(* A call of getNextLoop() moves the border between the loops that are one *)
(* pick ahead and the others by one, or starts a new turn.                 *)
LEMMA PickStep == TypeOK /\ StartInv /\ PickInv /\ [Next]_vars => PickInv'
<1> SUFFICES ASSUME TypeOK, StartInv, PickInv, [Next]_vars PROVE PickInv'
  OBVIOUS
<1> USE LoopThreadsAssumption DEF Loops
<1>1. ASSUME NEW n \in 0 .. MaxThreads, SetThreadNum(n) PROVE PickInv'
  BY <1>1 DEF TypeOK, StartInv, PickInv, InStartLoop, Cur, SetThreadNum
<1>2. CASE Start
  <2>1. CASE started
    BY <1>2, <2>1 DEF TypeOK, PickInv, InStartLoop, Start
  <2>2. CASE ~started
    <3>1. nextIdx' = 0 /\ picks' = picks /\ \A i \in Loops : picks[i] = 0
      BY <1>2, <2>2 DEF PickInv, Start
    <3>2. vecLoops' = <<>> /\ threadNum' = threadNum
      BY <1>2, <2>2 DEF StartInv, Start
    <3>3. \A i \in 1 .. threadNum' : picks'[i] = IF i <= nextIdx' THEN 0 + 1 ELSE 0
      BY <3>1, <3>2 DEF TypeOK
    <3>4. \E k \in Nat : \A i \in 1 .. threadNum' : picks'[i] = IF i <= nextIdx' THEN k + 1 ELSE k
      BY <3>3
    <3> QED
      BY <3>1, <3>2, <3>4 DEF PickInv
  <2> QED
    BY <2>1, <2>2
<1>3. CASE CreateThread
  BY <1>3 DEF TypeOK, PickInv, InStartLoop, CreateThread, pool
<1>4. CASE StartDone
  BY <1>4 DEF TypeOK, PickInv, InStartLoop, StartDone, pool
<1>5. CASE TestLoop
  BY <1>5 DEF TypeOK, PickInv, InStartLoop, TestLoop, pool
<1>6. CASE SpuriousWakeup
  BY <1>6 DEF TypeOK, PickInv, InStartLoop, SpuriousWakeup, pool
<1>7. CASE StartLoopReturn
  BY <1>7 DEF TypeOK, StartInv, PickInv, InStartLoop, Cur, StartLoopReturn, pool
<1>8. CASE GetNextLoop
  <2>1. CASE nextIdx' = nextIdx /\ picks' = picks
    BY <1>8, <2>1 DEF TypeOK, PickInv, InStartLoop, GetNextLoop
  <2>2. CASE ~(nextIdx' = nextIdx /\ picks' = picks) /\ ~resized
    <3>1. /\ started /\ vecLoops # <<>> /\ threadNum \in Nat \ {0}
          /\ nextIdx \in Nat /\ nextIdx < threadNum /\ threadNum <= MaxThreads
          /\ nextIdx' = (nextIdx + 1) % threadNum
          /\ picks' = [picks EXCEPT ![nextIdx + 1] = @ + 1]
          /\ UNCHANGED <<threadNum, started, vecLoops, resized>> /\ pc' = "idle"
      BY <1>8, <2>2 DEF TypeOK, PickInv, GetNextLoop, NextIdx
    <3>2. PICK k \in Nat : \A i \in 1 .. threadNum : picks[i] = IF i <= nextIdx THEN k + 1 ELSE k
      BY <2>2, <3>1 DEF PickInv
    <3>3. nextIdx' = IF nextIdx + 1 = threadNum THEN 0 ELSE nextIdx + 1
      BY <3>1, WrapAround
    <3>4. \A i \in 1 .. threadNum : picks'[i] = IF i <= nextIdx + 1 THEN k + 1 ELSE k
      BY <3>1, <3>2 DEF TypeOK
    <3>5. \E l \in Nat : \A i \in 1 .. threadNum : picks'[i] = IF i <= nextIdx' THEN l + 1 ELSE l
      <4>1. CASE nextIdx + 1 = threadNum
        <5>1. \A i \in 1 .. threadNum : picks'[i] = IF i <= nextIdx' THEN (k + 1) + 1 ELSE k + 1
          BY <3>1, <3>3, <3>4, <4>1
        <5> QED
          BY <5>1
      <4>2. CASE nextIdx + 1 # threadNum
        BY <3>3, <3>4, <4>2
      <4> QED
        BY <4>1, <4>2
    <3>6. nextIdx' < threadNum'
      BY <3>1, <3>3
    <3> QED
      BY <3>1, <3>5, <3>6 DEF PickInv, InStartLoop
  <2>3. CASE ~(nextIdx' = nextIdx /\ picks' = picks) /\ resized
    BY <1>8, <2>3 DEF TypeOK, StartInv, PickInv, InStartLoop, GetNextLoop
  <2> QED
    BY <2>1, <2>2, <2>3 DEF TypeOK
<1>9. CASE DestroyPool
  BY <1>9 DEF TypeOK, PickInv, InStartLoop, DestroyPool, pool
<1>10. ASSUME NEW i \in Loops, Publish(i) PROVE PickInv'
  BY <1>10 DEF TypeOK, PickInv, InStartLoop, Publish, pool
<1>11. ASSUME NEW i \in Loops, EnterLoop(i) PROVE PickInv'
  BY <1>11 DEF TypeOK, PickInv, InStartLoop, EnterLoop, pool
<1>12. ASSUME NEW i \in Loops, ClearLoop(i) PROVE PickInv'
  BY <1>12 DEF TypeOK, PickInv, InStartLoop, ClearLoop, pool
<1>13. ASSUME NEW i \in Loops, QuitLoop(i) PROVE PickInv'
  BY <1>13 DEF TypeOK, PickInv, InStartLoop, QuitLoop, pool
<1>14. ASSUME NEW i \in Loops, DestroyLoop(i) PROVE PickInv'
  <2>1. pc' \in {pc, "abort"}
    BY <1>14 DEF DestroyLoop
  <2> QED
    BY <1>14, <2>1 DEF TypeOK, PickInv, InStartLoop, DestroyLoop, pool
<1>15. CASE UNCHANGED vars
  BY <1>15 DEF PickInv, InStartLoop, vars
<1> QED
  BY <1>1, <1>2, <1>3, <1>4, <1>5, <1>6, <1>7, <1>8, <1>9, <1>10, <1>11, <1>12,
     <1>13, <1>14, <1>15 DEF Next, Base, Io

-------------------------------------------------------------------------------
(* The invariants hold at the start.                                       *)
LEMMA InitOK == Init => IInv /\ PickInv
<1> SUFFICES ASSUME Init PROVE IInv /\ PickInv
  OBVIOUS
<1> USE LoopThreadsAssumption DEF Loops, NULL
<1>1. Len(vecLoops) = 0 /\ DOMAIN vecLoops = {} /\ vecLoops \in Seq(Loops \cup {NULL})
  BY DEF Init
<1>2. TypeOK
  <2>1. /\ wpc \in [Loops -> {"none", "construct", "enter", "loop", "clear", "destroy", "done"}]
        /\ mLoop \in [Loops -> Loops \cup {NULL}]
        /\ picks \in [Loops -> Nat]
    BY DEF Init
  <2>2. threadNum \in 0 .. MaxThreads /\ nextIdx \in 0 .. MaxThreads - 1
    BY DEF Init
  <2>3. started \in BOOLEAN /\ resized \in BOOLEAN /\ quits \subseteq Loops
    BY DEF Init
  <2>4. Len(vecLoops) <= MaxThreads
    BY <1>1
  <2> QED
    BY <1>1, <2>1, <2>2, <2>3, <2>4 DEF Init, TypeOK
<1>3. StartInv
  BY <1>1 DEF Init, StartInv, InStartLoop
<1>4. ThreadInv
  BY <1>1 DEF Init, ThreadInv, InStartLoop, Cur
<1>5. StartedLoopsUsable
  BY <1>1 DEF StartedLoopsUsable
<1>6. PickInv
  BY <1>2 DEF Init, PickInv, InStartLoop, TypeOK
<1> QED
  BY <1>2, <1>3, <1>4, <1>5, <1>6 DEF IInv

(* The variables of the pool and of its threads keep their types; above    *)
(* all m_nextIdx stays below the greatest number of threads.               *)
THEOREM TypeCorrect == Spec => []TypeOK
<1>1. Init => TypeOK /\ StartInv
  BY InitOK DEF IInv
<1> QED
  BY <1>1, TypeStep, PTL DEF Spec

(* start() fills the pool with the loops of its threads, in order, and a   *)
(* null pointer gets among them only through a quit().                     *)
THEOREM PoolLoopsUsable == Spec => []StartedLoopsUsable
<1>1. IInv /\ [Next]_vars => IInv'
  BY TypeStep, ThreadStep DEF IInv
<1>2. IInv => StartedLoopsUsable
  BY DEF IInv
<1> QED
  BY <1>1, <1>2, InitOK, PTL DEF Spec

(* getNextLoop() is fair to the loops: no index out of the vector, and no  *)
(* loop ahead of another by more than one, for every number of threads.    *)
THEOREM PicksAreBalanced == Spec => []BalancedPicks
<1>1. TypeOK /\ StartInv /\ PickInv => BalancedPicks
  <2> SUFFICES ASSUME TypeOK, PickInv, started, ~resized
               PROVE  /\ vecLoops # <<>> => nextIdx < threadNum
                      /\ \A i, j \in 1 .. threadNum : picks[i] <= picks[j] + 1
    BY DEF BalancedPicks
  <2>1. PICK k \in Nat : \A i \in 1 .. threadNum : picks[i] = IF i <= nextIdx THEN k + 1 ELSE k
    BY DEF PickInv
  <2>2. \A i \in 1 .. threadNum : picks[i] \in {k, k + 1}
    BY <2>1
  <2>3. \A i, j \in 1 .. threadNum : picks[i] <= picks[j] + 1
    BY <2>2
  <2> QED
    BY <2>3 DEF PickInv
<1>2. Init => TypeOK /\ StartInv /\ PickInv
  BY InitOK DEF IInv
<1> QED
  BY <1>1, <1>2, TypeStep, PickStep, PTL DEF Spec
===============================================================================
